---------------------------- MODULE Spec2Model ----------------------------
(***************************************************************************)
(* A model of the two relevance-ranking engines of cortex-loop:            *)
(*   - the repo-map engine  (src/cortex/repomap.py)                        *)
(*   - the failure-retrieval engine, "graveyard"                           *)
(*     (src/cortex/graveyard.py over src/cortex/store.py)                  *)
(* and of the store's write retry loop (src/cortex/store.py).              *)
(*                                                                         *)
(* Text is modelled as a sequence of Unicode code points, so that the      *)
(* UTF-8 length of a text is computed from its characters.  Floating-point *)
(* scores are modelled as fixed-point integers; each use names its unit.   *)
(*                                                                         *)
(* The module holds one specification per component:                       *)
(*   SpecRender   _render_text as a pure function of (ranking, budget)     *)
(*   SpecRank     _rank_files as a pure function of its inputs             *)
(*   SpecRun      run_repomap, stepwise, against a small file system       *)
(*   Spec         the graveyard: record_failure / find_similar over a store*)
(*   SpecDiscover _select_scope and _discover_files over a small tree      *)
(*   SpecPagerank _pagerank_scores_with_backend over small import graphs   *)
(*   SpecWrite    SQLiteStore._run_write, one loop pass per step           *)
(*   SpecTokenize Graveyard._tokenize as a pure function of the text       *)
(*   SpecWindow   find_similar over a store filled up to its 200-row window*)
(*   SpecStop     the Stop hook: invariant report, then the stop outcome   *)
(*   SpecEdges    _build_dependency_edges, the path set in any order       *)
(*   SpecAnalyze  _analyze_files within run_repomap, one file per step     *)
(* Variables a specification does not use stay at their idle value.        *)
(***************************************************************************)
EXTENDS Integers, Sequences, FiniteSets, TLC

VARIABLES
    rt_ranking,        \* _render_text: the ranking argument
    rt_max_text_bytes, \* _render_text: the max_text_bytes argument
    rt_text,           \* _render_text: the returned text
    rt_done            \* _render_text has returned

rtVars == <<rt_ranking, rt_max_text_bytes, rt_text, rt_done>>

VARIABLES
    rk_analyses,       \* _rank_files: the analyses argument
    rk_focus_files,    \* _rank_files: the focus_files argument
    rk_max_files,      \* _rank_files: the max_files argument
    rk_graph_scores,   \* _rank_files: the graph_scores argument
    rk_ranking,        \* _rank_files: the returned ranking
    rk_done            \* _rank_files has returned

rkVars == <<rk_analyses, rk_focus_files, rk_max_files, rk_graph_scores, rk_ranking, rk_done>>

VARIABLES
    gy_table,          \* the store's graveyard table, in insertion order
    gy_config,         \* Graveyard.config
    gy_fts_ok,         \* whether the store's connection can create an fts5 table
    gy_now,            \* the store's clock, for created_at
    gy_op,             \* the last call: "init", "record_failure", "find_similar"
    gy_query,          \* the arguments of the last find_similar call
    gy_matches,        \* the list the last find_similar call returned
    gy_store_calls     \* the store methods the last call invoked, in order

gyVars == <<gy_table, gy_config, gy_fts_ok, gy_now, gy_op, gy_query, gy_matches,
            gy_store_calls>>

VARIABLES
    rr_root,           \* what the root path is: "dir", "file" or "missing"
    rr_config,         \* repomap_config
    rr_args,           \* the keyword arguments of the call
    rr_tree,           \* what each pass of discovery finds on disk
    rr_pc,             \* where the call is
    rr_elapsed,        \* milliseconds since start
    rr_visited,        \* passes of discovery made
    rr_discovered,     \* files discovered so far
    rr_analysed,       \* whether the files have been analysed
    rr_artifact,       \* the artifact built, {} before
    rr_written,        \* the artifact files written
    rr_fault,          \* what went wrong, and with which exception
    rr_result,         \* what the call returned or raised, {} before
    rr_networkx        \* what _pagerank_scores_networkx returned, {} if not called

rrVars == <<rr_root, rr_config, rr_args, rr_tree, rr_pc, rr_elapsed, rr_visited,
            rr_discovered, rr_analysed, rr_artifact, rr_written, rr_fault, rr_result,
            rr_networkx>>

VARIABLES
    ds_tree,           \* the files on disk under the root
    ds_scope,          \* run_repomap: the scope argument, {} for None
    ds_config,         \* repomap_config: watch_paths and ignored_dirs
    ds_pc,             \* where the call is
    ds_selected,       \* selected_scope
    ds_files           \* the list _discover_files returned

dsVars == <<ds_tree, ds_scope, ds_config, ds_pc, ds_selected, ds_files>>

VARIABLES
    pr_paths,          \* _pagerank_scores_with_backend: the paths argument
    pr_edges,          \* the edges argument
    pr_networkx,       \* what _pagerank_scores_networkx returns
    pr_result,         \* the scores and the backend returned
    pr_done            \* the call has returned

prVars == <<pr_paths, pr_edges, pr_networkx, pr_result, pr_done>>

VARIABLES
    rw_lock_retry_attempts,   \* _run_write: self.lock_retry_attempts
    rw_lock_retry_backoff_ms, \* _run_write: self.lock_retry_backoff_ms
    rw_attempt,               \* _run_write: the loop variable
    rw_invocations,           \* calls of operation(conn) so far
    rw_outcomes,              \* how each attempt so far ended
    rw_slept_ms,              \* the time.sleep calls so far, in milliseconds
    rw_raised,                \* the exception _run_write raised, {} if none
    rw_pc                     \* "loop", "returned", "raised"; "idle" when unused

rwVars == <<rw_lock_retry_attempts, rw_lock_retry_backoff_ms, rw_attempt, rw_invocations, rw_outcomes, rw_slept_ms, rw_raised, rw_pc>>

VARIABLES
    tk_text,           \* Graveyard._tokenize: the text argument
    tk_tokens,         \* the list returned
    tk_done            \* the call has returned

tkVars == <<tk_text, tk_tokens, tk_done>>

VARIABLES
    st_hooks,          \* on_stop: genome.hooks
    st_suite,          \* the invariant suite: "skipped" (not run on stop), "pass", "fail"
    st_checks,         \* what on_stop found before the outcome is computed
    st_invariant_report, \* the report of InvariantRunner.run, {} when not run
    st_response,       \* the session status and the response returned, {} before
    st_pc              \* "invariants", "outcome", "done"; "idle" when unused

stVars == <<st_hooks, st_suite, st_checks, st_invariant_report, st_response, st_pc>>

VARIABLES
    ed_analyses,       \* _build_dependency_edges: the list of file analyses
    ed_order,          \* the order in which the set available_paths is iterated
    ed_index,          \* python_index
    ed_edges,          \* the edge list returned
    ed_done            \* whether _build_dependency_edges has returned

edVars == <<ed_analyses, ed_order, ed_index, ed_edges, ed_done>>

VARIABLES
    az_files,          \* the discovered files: path, text, whether the text can be read
    az_analyses,       \* _analyze_files: the analyses so far
    az_pc,             \* where run_repomap is: "analysing", "returned", "raised", "idle"
    az_raised,         \* the exception that left run_repomap, {} for none
    az_artifact        \* the artifact built once the files are analysed, {} for none

azVars == <<az_files, az_analyses, az_pc, az_raised, az_artifact>>

---------------------------------------------------------------------------
(* Generic helpers *)

Max(a, b) == IF a >= b THEN a ELSE b

Min(a, b) == IF a <= b THEN a ELSE b

\* n copies of x
Rep(x, n) == [i \in 1..n |-> x]

\* all sequences over S of length 0..n
RECURSIVE SeqsUpTo(_, _)
SeqsUpTo(S, n) ==
    IF n = 0 THEN {<<>>}
    ELSE LET shorter == SeqsUpTo(S, n - 1)
         IN  shorter \cup {Append(s, x) : s \in {t \in shorter : Len(t) = n - 1}, x \in S}

---------------------------------------------------------------------------
(* Text as code points; str.encode("utf-8") *)

\* bytes of one code point in UTF-8
Utf8Len(c) == IF c < 128 THEN 1 ELSE IF c < 2048 THEN 2 ELSE IF c < 65536 THEN 3 ELSE 4

\* len(text.encode("utf-8"))
\* (summed by halves, to keep the evaluation shallow on long texts)
RECURSIVE EncodeLenOf(_, _, _)
EncodeLenOf(s, lo, hi) ==
    IF lo > hi THEN 0
    ELSE IF lo = hi THEN Utf8Len(s[lo])
    ELSE LET mid == (lo + hi) \div 2
         IN  EncodeLenOf(s, lo, mid) + EncodeLenOf(s, mid + 1, hi)

EncodeLen(s) == EncodeLenOf(s, 1, Len(s))

\* str(n) for n >= 0, as code points ("0" is 48)
RECURSIVE DecimalStr(_)
DecimalStr(n) == IF n < 10 THEN <<48 + n>> ELSE DecimalStr(n \div 10) \o <<48 + (n % 10)>>

\* f"{score:.3f}" of a score given in thousandths
FormatScore3(ms) ==
    DecimalStr(ms \div 1000) \o <<46>>
        \o <<48 + ((ms \div 100) % 10), 48 + ((ms \div 10) % 10), 48 + (ms % 10)>>

\* _truncate_utf8: the longest prefix of whole characters within max_bytes.
\* The code clips the encoded bytes and backs off to the start of a split
\* character (exc.start), which is this prefix.
Utf8Prefix(s, room) ==
    LET k == CHOOSE n \in 0..Len(s) :
                 /\ EncodeLenOf(s, 1, n) <= room
                 /\ (n = Len(s) \/ EncodeLenOf(s, 1, n + 1) > room)
    IN  SubSeq(s, 1, k)

_truncate_utf8(txt, max_bytes) ==
    IF max_bytes <= 0 THEN <<>>
    ELSE IF EncodeLen(txt) <= max_bytes THEN txt
    ELSE Utf8Prefix(txt, max_bytes)

---------------------------------------------------------------------------
(* _render_text  (repomap.py 637-641, 891-922) *)

\* the floor the renderer puts under its budget: max(256, max_text_bytes)
MIN_TEXT_BUDGET == 256

\* "  - {symbol}\n" for each symbol
RECURSIVE SymbolLines(_)
SymbolLines(symbols) ==
    IF symbols = <<>> THEN <<>>
    ELSE <<32, 32, 45, 32>> \o Head(symbols) \o <<10>> \o SymbolLines(Tail(symbols))

\* f"{entry.path} ({entry.score:.3f})\n" followed by the symbol bullets.
\* entry.score is held in thousandths.
_render_entry_chunk(entry) ==
    entry.path \o <<32, 40>> \o FormatScore3(entry.score) \o <<41, 10>>
        \o SymbolLines(entry.symbols)

\* f"... (truncated, showing {shown}/{total} files within {budget} bytes)\n"
TruncationNote(shown, total, budget) ==
    <<46, 46, 46, 32, 40, 116, 114, 117, 110, 99, 97, 116, 101, 100, 44, 32,
      115, 104, 111, 119, 105, 110, 103, 32>>
        \o DecimalStr(shown) \o <<47>> \o DecimalStr(total)
        \o <<32, 102, 105, 108, 101, 115, 32, 119, 105, 116, 104, 105, 110, 32>>
        \o DecimalStr(budget) \o <<32, 98, 121, 116, 101, 115, 41, 10>>

\* the rendered chunks of the first k entries, joined
RECURSIVE ChunksText(_, _)
ChunksText(ranking, k) ==
    IF k = 0 THEN <<>>
    ELSE ChunksText(ranking, k - 1) \o _render_entry_chunk(ranking[k])

\* `used` after accepting the first k chunks
ChunksBytes(ranking, k) == EncodeLen(ChunksText(ranking, k))

\* The for loop: the number of leading entries accepted before one overflows
\* the budget (or all of them).
RECURSIVE AcceptedCount(_, _, _)
AcceptedCount(ranking, budget, k) ==
    IF k = Len(ranking) THEN k
    ELSE IF ChunksBytes(ranking, k) + EncodeLen(_render_entry_chunk(ranking[k + 1])) > budget
         THEN k
         ELSE AcceptedCount(ranking, budget, k + 1)

\* The while loop: pop accepted chunks until the note fits or none is left.
RECURSIVE ShrinkForNote(_, _, _)
ShrinkForNote(ranking, budget, k) ==
    IF k > 0 /\ ChunksBytes(ranking, k)
                  + EncodeLen(TruncationNote(k, Len(ranking), budget)) > budget
    THEN ShrinkForNote(ranking, budget, k - 1)
    ELSE k

\* A plausible slip: the note is appended to the accepted chunks without
\* shrinking the tail.
_render_text_no_shrink(ranking, max_text_bytes) ==
    IF ranking = <<>> THEN <<>>
    ELSE LET budget   == Max(MIN_TEXT_BUDGET, max_text_bytes)
             accepted == AcceptedCount(ranking, budget, 0)
         IN  IF accepted = Len(ranking) THEN ChunksText(ranking, accepted)
             ELSE ChunksText(ranking, accepted)
                      \o TruncationNote(accepted, Len(ranking), budget)

\* A plausible slip: the note is not rewritten while the tail is shrunk, so
\* that it reports the number of entries first accepted.
_render_text_stale_note(ranking, max_text_bytes) ==
    IF ranking = <<>> THEN <<>>
    ELSE LET budget    == Max(MIN_TEXT_BUDGET, max_text_bytes)
             accepted  == AcceptedCount(ranking, budget, 0)
             kept      == ShrinkForNote(ranking, budget, accepted)
             note      == TruncationNote(accepted, Len(ranking), budget)
         IN  IF accepted = Len(ranking) THEN ChunksText(ranking, accepted)
             ELSE ChunksText(ranking, kept) \o note

_render_text(ranking, max_text_bytes) ==
    IF ranking = <<>> THEN <<>>
    ELSE LET budget    == Max(MIN_TEXT_BUDGET, max_text_bytes)
             accepted  == AcceptedCount(ranking, budget, 0)
             truncated == accepted < Len(ranking)
             kept      == ShrinkForNote(ranking, budget, accepted)
             note      == TruncationNote(kept, Len(ranking), budget)
         IN  IF ~truncated THEN ChunksText(ranking, accepted)
             ELSE IF ChunksBytes(ranking, kept) + EncodeLen(note) <= budget
                  THEN ChunksText(ranking, kept) \o note
                  ELSE _truncate_utf8(note, budget)

---------------------------------------------------------------------------
(* Strings as code-point sequences: the str and pathlib operations used *)

\* str.lower(), on the ASCII letters
Lower(s) == [i \in 1..Len(s) |-> IF s[i] >= 65 /\ s[i] <= 90 THEN s[i] + 32 ELSE s[i]]

\* s.replace("\\", "/")
SlashNormalize(s) == [i \in 1..Len(s) |-> IF s[i] = 92 THEN 47 ELSE s[i]]

\* s.count(c)
CountChar(s, c) == Cardinality({i \in 1..Len(s) : s[i] = c})

\* s.rfind(c), 1-based; 0 when c does not occur
LastIndexOf(s, c) ==
    IF \E i \in 1..Len(s) : s[i] = c
    THEN CHOOSE i \in 1..Len(s) : s[i] = c /\ \A j \in (i + 1)..Len(s) : s[j] # c
    ELSE 0

\* s.startswith(p), s.endswith(p), p in s
StartsWith(s, p) == Len(p) <= Len(s) /\ SubSeq(s, 1, Len(p)) = p

EndsWith(s, p) == Len(p) <= Len(s) /\ SubSeq(s, Len(s) - Len(p) + 1, Len(s)) = p

Contains(s, p) ==
    \E i \in 1..(Len(s) - Len(p) + 1) : SubSeq(s, i, i + Len(p) - 1) = p

\* a < b for str: lexicographic by code point
StrLess(a, b) ==
    \E i \in 1..(Min(Len(a), Len(b)) + 1) :
        /\ \/ i = Len(a) + 1 /\ i <= Len(b)
           \/ i <= Len(a) /\ i <= Len(b) /\ a[i] < b[i]
        /\ \A j \in 1..(i - 1) : a[j] = b[j]

\* s.split(c): the stretches between the occurrences of c
RECURSIVE SplitFrom(_, _, _)
SplitFrom(s, c, from) ==
    LET i == CHOOSE k \in from..(Len(s) + 1) :
                 /\ (k = Len(s) + 1 \/ s[k] = c)
                 /\ \A j \in from..(k - 1) : s[j] # c
    IN  IF i = Len(s) + 1 THEN <<SubSeq(s, from, Len(s))>>
        ELSE <<SubSeq(s, from, i - 1)>> \o SplitFrom(s, c, i + 1)

SplitOn(s, c) == SplitFrom(s, c, 1)

\* Path(p).parts of a relative POSIX path: the segments, "" and "." dropped
PathParts(p) == SelectSeq(SplitOn(p, 47), LAMBDA seg : seg # <<>> /\ seg # <<46>>)

\* Path(p).name
PathName(p) == LET parts == PathParts(p) IN IF parts = <<>> THEN <<>> ELSE parts[Len(parts)]

\* the suffix of a file name: from its last dot, unless that dot leads or
\* ends the name
NameSuffix(name) ==
    LET i == LastIndexOf(name, 46)
    IN  IF 1 < i /\ i < Len(name) THEN SubSeq(name, i, Len(name)) ELSE <<>>

\* Path(p).suffix
PathSuffix(p) == NameSuffix(PathName(p))

\* the stem of a file name: the name without its suffix
NameStem(name) == SubSeq(name, 1, Len(name) - Len(NameSuffix(name)))

\* Path(p).stem
PathStem(p) == NameStem(PathName(p))

\* dict.get(key, default) on a table of <<key, value>> pairs
DictGet(table, key, default) ==
    IF \E kv \in table : kv[1] = key
    THEN (CHOOSE kv \in table : kv[1] = key)[2]
    ELSE default

\* sum(f(x) for x in seq)
RECURSIVE SumSeq(_)
SumSeq(s) == IF s = <<>> THEN 0 ELSE Head(s) + SumSeq(Tail(s))

\* sum of the values of a set of <<key, value>> pairs
RECURSIVE SumValues(_)
SumValues(kvs) ==
    IF kvs = {} THEN 0
    ELSE LET kv == CHOOSE x \in kvs : TRUE IN kv[2] + SumValues(kvs \ {kv})

---------------------------------------------------------------------------
(* _rank_files  (repomap.py 840-888).                                      *)
(* Scores are in units of 1/2000, in which every constant of the heuristic *)
(* and line_count / 400 are integers; graph scores are in thousandths.     *)

\* _CODE_LIKE_SUFFIXES (repomap.py 72-112)
_CODE_LIKE_SUFFIXES ==
    { <<46, 97, 115, 116, 114, 111>>,  \* ".astro"
      <<46, 98, 97, 115, 104>>,  \* ".bash"
      <<46, 99>>,  \* ".c"
      <<46, 99, 99>>,  \* ".cc"
      <<46, 99, 106, 115>>,  \* ".cjs"
      <<46, 99, 112, 112>>,  \* ".cpp"
      <<46, 99, 115>>,  \* ".cs"
      <<46, 99, 115, 115>>,  \* ".css"
      <<46, 103, 111>>,  \* ".go"
      <<46, 104>>,  \* ".h"
      <<46, 104, 112, 112>>,  \* ".hpp"
      <<46, 104, 116, 109, 108>>,  \* ".html"
      <<46, 106, 97, 118, 97>>,  \* ".java"
      <<46, 106, 115>>,  \* ".js"
      <<46, 106, 115, 111, 110>>,  \* ".json"
      <<46, 106, 115, 120>>,  \* ".jsx"
      <<46, 107, 116>>,  \* ".kt"
      <<46, 108, 117, 97>>,  \* ".lua"
      <<46, 109, 100>>,  \* ".md"
      <<46, 109, 106, 115>>,  \* ".mjs"
      <<46, 112, 104, 112>>,  \* ".php"
      <<46, 112, 115, 49>>,  \* ".ps1"
      <<46, 112, 121>>,  \* ".py"
      <<46, 112, 121, 105>>,  \* ".pyi"
      <<46, 114, 98>>,  \* ".rb"
      <<46, 114, 115>>,  \* ".rs"
      <<46, 115, 99, 97, 108, 97>>,  \* ".scala"
      <<46, 115, 99, 115, 115>>,  \* ".scss"
      <<46, 115, 104>>,  \* ".sh"
      <<46, 115, 113, 108>>,  \* ".sql"
      <<46, 115, 118, 101, 108, 116, 101>>,  \* ".svelte"
      <<46, 115, 119, 105, 102, 116>>,  \* ".swift"
      <<46, 116, 111, 109, 108>>,  \* ".toml"
      <<46, 116, 115>>,  \* ".ts"
      <<46, 116, 115, 120>>,  \* ".tsx"
      <<46, 118, 117, 101>>,  \* ".vue"
      <<46, 121, 97, 109, 108>>,  \* ".yaml"
      <<46, 121, 109, 108>>,  \* ".yml"
      <<46, 122, 115, 104>> }  \* ".zsh"

\* _RANK_SUFFIX_BOOSTS (repomap.py 113-117), values in 1/2000
_RANK_SUFFIX_BOOSTS ==
    { <<<<46, 97, 115, 116, 114, 111>>, 1800>>,  \* ".astro": 0.9
      <<<<46, 116, 115, 120>>, 1000>>,  \* ".tsx": 0.5
      <<<<46, 106, 115, 120>>, 800>> }  \* ".jsx": 0.4

\* _RANK_EXACT_FILENAME_PENALTIES (repomap.py 118-125), values in 1/2000
_RANK_EXACT_FILENAME_PENALTIES ==
    { <<<<112, 97, 99, 107, 97, 103, 101, 45, 108, 111, 99, 107, 46, 106, 115, 111, 110>>, 3600>>,  \* "package-lock.json": 1.8
      <<<<112, 110, 112, 109, 45, 108, 111, 99, 107, 46, 121, 97, 109, 108>>, 3600>>,  \* "pnpm-lock.yaml": 1.8
      <<<<121, 97, 114, 110, 46, 108, 111, 99, 107>>, 3600>>,  \* "yarn.lock": 1.8
      <<<<112, 111, 101, 116, 114, 121, 46, 108, 111, 99, 107>>, 2800>>,  \* "poetry.lock": 1.4
      <<<<99, 97, 114, 103, 111, 46, 108, 111, 99, 107>>, 2800>>,  \* "cargo.lock": 1.4
      <<<<99, 111, 109, 112, 111, 115, 101, 114, 46, 108, 111, 99, 107>>, 2400>> }  \* "composer.lock": 1.2

\* _RANK_NAME_BOOSTS (repomap.py 127-139), values in 1/2000
_RANK_NAME_BOOSTS ==
    { <<<<99, 111, 114, 101>>, 1800>>,  \* "core": 0.9
      <<<<109, 97, 105, 110>>, 1600>>,  \* "main": 0.8
      <<<<97, 112, 112>>, 1400>>,  \* "app": 0.7
      <<<<105, 110, 100, 101, 120>>, 1200>>,  \* "index": 0.6
      <<<<115, 101, 114, 118, 101, 114>>, 1400>>,  \* "server": 0.7
      <<<<99, 108, 105, 101, 110, 116>>, 1000>>,  \* "client": 0.5
      <<<<97, 112, 105>>, 1200>>,  \* "api": 0.6
      <<<<114, 111, 117, 116, 101, 114>>, 1000>>,  \* "router": 0.5
      <<<<115, 101, 114, 118, 105, 99, 101>>, 800>>,  \* "service": 0.4
      <<<<109, 111, 100, 101, 108>>, 600>>,  \* "model": 0.3
      <<<<115, 116, 111, 114, 101>>, 600>> }  \* "store": 0.3

\* _RANK_PATH_PENALTIES (repomap.py 140-147), values in 1/2000
_RANK_PATH_PENALTIES ==
    { <<<<116, 101, 115, 116, 115>>, 1700>>,  \* "tests": 0.85
      <<<<116, 101, 115, 116>>, 1700>>,  \* "test": 0.85
      <<<<100, 111, 99, 115>>, 1300>>,  \* "docs": 0.65
      <<<<101, 120, 97, 109, 112, 108, 101, 115>>, 1400>>,  \* "examples": 0.7
      <<<<115, 99, 114, 105, 112, 116, 115>>, 1600>>,  \* "scripts": 0.8
      <<<<109, 105, 103, 114, 97, 116, 105, 111, 110, 115>>, 1600>> }  \* "migrations": 0.8

\* _RANK_PATH_BOOSTS (repomap.py 148-153), values in 1/2000
_RANK_PATH_BOOSTS ==
    { <<<<115, 114, 99>>, 300>>,  \* "src": 0.15
      <<<<99, 111, 109, 112, 111, 110, 101, 110, 116, 115>>, 400>>,  \* "components": 0.2
      <<<<112, 97, 103, 101, 115>>, 400>>,  \* "pages": 0.2
      <<<<108, 97, 121, 111, 117, 116, 115>>, 300>> }  \* "layouts": 0.15


\* the stem boosts that apply: stem == name, or name_ leads, or _name ends it
NameBoostSum(stem) ==
    SumValues({kv \in _RANK_NAME_BOOSTS :
                  \/ stem = kv[1]
                  \/ StartsWith(stem, kv[1] \o <<95>>)
                  \/ EndsWith(stem, <<95>> \o kv[1])})

\* for part in path_obj.parts[:-1]: boosts added, penalties subtracted
RECURSIVE DirSegmentSum(_)
DirSegmentSum(dirs) ==
    IF dirs = <<>> THEN 0
    ELSE DictGet(_RANK_PATH_BOOSTS, Lower(Head(dirs)), 0)
             - DictGet(_RANK_PATH_PENALTIES, Lower(Head(dirs)), 0)
             + DirSegmentSum(Tail(dirs))

\* "generated" / "snapshot"
StrGenerated == <<103, 101, 110, 101, 114, 97, 116, 101, 100>>

StrSnapshot == <<115, 110, 97, 112, 115, 104, 111, 116>>

\* the bonus of a focus file or of a file sharing a focus file's basename
FocusBonus(path, focus) ==
    IF path \in focus THEN 50000                                  \* 25.0
    ELSE IF PathName(path) \in {PathName(f) : f \in focus} THEN 8000   \* 4.0
    ELSE 0

\* every term of the score but the focus bonus, before the floor at 0
ScoreSansFocus(analysis, graph_scores) ==
    LET path   == SlashNormalize(analysis.path)
        parts  == PathParts(path)
        name   == IF parts = <<>> THEN <<>> ELSE parts[Len(parts)]
        suffix == Lower(NameSuffix(name))
        depth  == CountChar(path, 47)
        stem   == Lower(NameStem(name))
        g      == IF path \in DOMAIN graph_scores THEN graph_scores[path] ELSE 0
    IN  2000                                                      \* 1.0
        + (IF suffix \in _CODE_LIKE_SUFFIXES THEN 3200 ELSE 0)    \* 1.6
        + DictGet(_RANK_SUFFIX_BOOSTS, suffix, 0)
        + Max(0, 1600 - Min(depth, 10) * 160)                     \* 0.8, 0.08
        + Min(3000, analysis.symbol_count * 400)                  \* 1.5, 0.2
        + Min(1600, analysis.line_count * 5)                      \* 0.8, /400
        + NameBoostSum(stem)
        + DirSegmentSum(SubSeq(parts, 1, Len(parts) - 1))
        - DictGet(_RANK_EXACT_FILENAME_PENALTIES, Lower(name), 0)
        - (IF Contains(stem, StrGenerated) \/ Contains(stem, StrSnapshot)
           THEN 800 ELSE 0)                                       \* 0.4
        + 4 * Max(0, g)                                           \* 2.0 * g

\* the RepoMapRankingEntry of one analysis: score floored at 0
RankEntry(analysis, focus, graph_scores) ==
    LET path == SlashNormalize(analysis.path)
    IN  [path    |-> path,
         score   |-> Max(0, ScoreSansFocus(analysis, graph_scores)
                              + FocusBonus(path, focus)),
         symbols |-> analysis.symbols]

\* A plausible slip: the sort key is the score alone.
RankKeyLeqScoreOnly(a, b) == a.score >= b.score

\* the sort key (-item.score, item.path): a before-or-equal b
RankKeyLeq(a, b) ==
    \/ a.score > b.score
    \/ a.score = b.score /\ (a.path = b.path \/ StrLess(a.path, b.path))

\* list.sort is stable: an element goes behind every element whose key is
\* before or equal to its own
RECURSIVE RankInsert(_, _)
RankInsert(sorted, e) ==
    IF sorted # <<>> /\ RankKeyLeq(sorted[Len(sorted)], e) THEN Append(sorted, e)
    ELSE IF sorted = <<>> THEN <<e>>
    ELSE Append(RankInsert(SubSeq(sorted, 1, Len(sorted) - 1), e), sorted[Len(sorted)])

RECURSIVE RankSort(_)
RankSort(scored) ==
    IF scored = <<>> THEN <<>>
    ELSE RankInsert(RankSort(SubSeq(scored, 1, Len(scored) - 1)), scored[Len(scored)])

\* scored.sort(key=...); return scored[: max(0, max_files)]
SortAndCut(scored, max_files) ==
    LET sorted == RankSort(scored)
    IN  SubSeq(sorted, 1, Min(Len(sorted), Max(0, max_files)))

\* the scored list, one entry per analysis, in the order of the analyses
ScoreAll(analyses, focus_files, graph_scores) ==
    LET focus == {SlashNormalize(f) : f \in focus_files}
    IN  [i \in 1..Len(analyses) |-> RankEntry(analyses[i], focus, graph_scores)]

_rank_files(analyses, focus_files, max_files, graph_scores) ==
    SortAndCut(ScoreAll(analyses, focus_files, graph_scores), max_files)

---------------------------------------------------------------------------
(* The failure tokenizer  (graveyard.py 14-31, 153-193) *)

\* the characters of _WORD_RE = [A-Za-z0-9_./-]+
IsAlnum(c) == (c >= 48 /\ c <= 57) \/ (c >= 65 /\ c <= 90) \/ (c >= 97 /\ c <= 122)

IsWordChar(c) == IsAlnum(c) \/ c \in {95, 46, 47, 45}

\* the maximal runs of characters satisfying ok, from position `from` on, in
\* order: pattern.findall(text) for a pattern that is one character class
\* repeated
RECURSIVE RunsFrom(_, _, _)
RunsFrom(s, ok(_), from) ==
    IF \A i \in from..Len(s) : ~ok(s[i]) THEN <<>>
    ELSE LET start == CHOOSE i \in from..Len(s) :
                          ok(s[i]) /\ \A j \in from..(i - 1) : ~ok(s[j])
             stop  == CHOOSE k \in (start + 1)..(Len(s) + 1) :
                          /\ (k = Len(s) + 1 \/ ~ok(s[k]))
                          /\ \A j \in start..(k - 1) : ok(s[j])
         IN  <<SubSeq(s, start, stop - 1)>> \o RunsFrom(s, ok, stop)

\* _WORD_RE.findall(text)
FindWords(s) == RunsFrom(s, IsWordChar, 1)

\* value.strip("._/-")
StripChars == {46, 95, 47, 45}

StripPunct(s) ==
    IF \A i \in 1..Len(s) : s[i] \in StripChars THEN <<>>
    ELSE LET first == CHOOSE i \in 1..Len(s) :
                          s[i] \notin StripChars /\ \A j \in 1..(i - 1) : s[j] \in StripChars
             last  == CHOOSE i \in 1..Len(s) :
                          s[i] \notin StripChars
                          /\ \A j \in (i + 1)..Len(s) : s[j] \in StripChars
         IN  SubSeq(s, first, last)

\* _SYNONYM_CANONICAL (graveyard.py 15-31)
_SYNONYM_CANONICAL ==
    { <<<<114, 101, 100, 105, 115>>, <<99, 97, 99, 104, 101>>>>,  \* "redis": "cache"
      <<<<99, 97, 99, 104, 105, 110, 103>>, <<99, 97, 99, 104, 101>>>>,  \* "caching": "cache"
      <<<<108, 97, 116, 101, 110, 99, 121>>, <<116, 105, 109, 101, 111, 117, 116>>>>,  \* "latency": "timeout"
      <<<<115, 108, 111, 119>>, <<116, 105, 109, 101, 111, 117, 116>>>>,  \* "slow": "timeout"
      <<<<115, 108, 111, 119, 110, 101, 115, 115>>, <<116, 105, 109, 101, 111, 117, 116>>>>,  \* "slowness": "timeout"
      <<<<99, 114, 97, 115, 104>>, <<102, 97, 105, 108>>>>,  \* "crash": "fail"
      <<<<99, 114, 97, 115, 104, 101, 100>>, <<102, 97, 105, 108>>>>,  \* "crashed": "fail"
      <<<<102, 97, 105, 108, 117, 114, 101>>, <<102, 97, 105, 108>>>>,  \* "failure": "fail"
      <<<<102, 97, 105, 108, 101, 100>>, <<102, 97, 105, 108>>>>,  \* "failed": "fail"
      <<<<101, 114, 114, 111, 114>>, <<102, 97, 105, 108>>>>,  \* "error": "fail"
      <<<<101, 114, 114, 111, 114, 115>>, <<102, 97, 105, 108>>>>,  \* "errors": "fail"
      <<<<101, 120, 99, 101, 112, 116, 105, 111, 110>>, <<102, 97, 105, 108>>>>,  \* "exception": "fail"
      <<<<101, 120, 99, 101, 112, 116, 105, 111, 110, 115>>, <<102, 97, 105, 108>>>>,  \* "exceptions": "fail"
      <<<<99, 111, 110, 110, 101, 99, 116, 105, 111, 110>>, <<99, 111, 110, 110, 101, 99, 116>>>>,  \* "connection": "connect"
      <<<<99, 111, 110, 110, 101, 99, 116, 105, 111, 110, 115>>, <<99, 111, 110, 110, 101, 99, 116>>>> }  \* "connections": "connect"


\* value[:-n]
DropLast(s, n) == SubSeq(s, 1, Len(s) - n)

\* A plausible slip: the "ing" rule without its length test.
StemShortWords(value) ==
    IF EndsWith(value, <<105, 101, 115>>) /\ Len(value) > 4
        THEN DropLast(value, 3) \o <<121>>
    ELSE IF EndsWith(value, <<105, 110, 103>>)
        THEN DropLast(value, 3)
    ELSE IF EndsWith(value, <<101, 100>>) /\ Len(value) > 4
        THEN DropLast(value, 2)
    ELSE IF EndsWith(value, <<115>>) /\ Len(value) > 3
        THEN DropLast(value, 1)
    ELSE value

\* the light stemming of _normalize_token: the first rule that applies
Stem(value) ==
    IF EndsWith(value, <<105, 101, 115>>) /\ Len(value) > 4          \* "ies"
        THEN DropLast(value, 3) \o <<121>>                           \* + "y"
    ELSE IF EndsWith(value, <<105, 110, 103>>) /\ Len(value) > 5     \* "ing"
        THEN DropLast(value, 3)
    ELSE IF EndsWith(value, <<101, 100>>) /\ Len(value) > 4          \* "ed"
        THEN DropLast(value, 2)
    ELSE IF EndsWith(value, <<115>>) /\ Len(value) > 3               \* "s"
        THEN DropLast(value, 1)
    ELSE value

\* Graveyard._normalize_token; "" is <<>>
_normalize_token(token) ==
    LET value == StripPunct(Lower(token))
    IN  IF Len(value) <= 2 THEN <<>>
        ELSE LET stemmed == Stem(value)
             IN  DictGet(_SYNONYM_CANONICAL, stemmed, stemmed)

\* Graveyard._tokenize: the non-empty normalized tokens, in order
_tokenize(txt) ==
    LET raw == FindWords(txt)
    IN  SelectSeq([i \in 1..Len(raw) |-> _normalize_token(raw[i])],
                  LAMBDA tok : tok # <<>>)

\* set(seq)
ToSet(s) == {s[i] : i \in 1..Len(s)}

\* Graveyard._keywords
_keywords(txt) == ToSet(_tokenize(txt))

\* "/".join(parts)
RECURSIVE JoinSlash(_)
JoinSlash(parts) ==
    IF parts = <<>> THEN <<>>
    ELSE IF Len(parts) = 1 THEN parts[1]
    ELSE parts[1] \o <<47>> \o JoinSlash(Tail(parts))

\* Graveyard._norm_path: the segments of the path, "" and "." dropped.
\* (str(PurePosixPath(p)) keeps a leading "/" and the split drops it.)
_norm_path(path) == JoinSlash(PathParts(path))

\* Graveyard._token_jaccard, in 1/10000
_token_jaccard(left, right) ==
    IF left = {} \/ right = {} THEN 0
    ELSE (Cardinality(left \cap right) * 10000) \div Cardinality(left \cup right)

---------------------------------------------------------------------------
(* The store's graveyard table  (store.py 203-276, 326-348) *)

\* sorted(strings): ascending by code point
RECURSIVE SortedStrings(_)
SortedStrings(S) ==
    IF S = {} THEN <<>>
    ELSE LET least == CHOOSE x \in S : \A y \in S \ {x} : StrLess(x, y)
         IN  <<least>> \o SortedStrings(S \ {least})

\* the first n elements: seq[:n] for n >= 0, and LIMIT n
Take(s, n) == SubSeq(s, 1, Min(Len(s), n))

\* reversed(seq)
Reverse(s) == [i \in 1..Len(s) |-> s[Len(s) + 1 - i]]

\* A plausible slip: the LIMIT is left out of the query.
list_graveyard_unlimited(table, limit) == Reverse(table)

\* _list_graveyard_rows / list_graveyard: ORDER BY id DESC LIMIT limit.
\* The table is held in insertion order, which is ascending id.
list_graveyard(table, limit) == Take(Reverse(table), limit)

\* _FTS_TOKEN_RE = ^[a-z0-9_]+$
IsFtsTokenChar(c) == (c >= 97 /\ c <= 122) \/ (c >= 48 /\ c <= 57) \/ c = 95

FtsTokenOk(tok) == tok # <<>> /\ \A i \in 1..Len(tok) : IsFtsTokenChar(tok[i])

\* json.dumps(list of str): ["a", "b"], for strings that need no escape
RECURSIVE JsonItems(_)
JsonItems(strs) ==
    IF strs = <<>> THEN <<>>
    ELSE <<34>> \o Head(strs) \o <<34>>
             \o (IF Len(strs) > 1 THEN <<44, 32>> ELSE <<>>) \o JsonItems(Tail(strs))

JsonList(strs) == <<91>> \o JsonItems(strs) \o <<93>>

\* The tokens fts5's default tokenizer (unicode61) makes of a text: the
\* runs of letters and digits, case-folded.
FtsTokens(txt) ==
    LET runs == RunsFrom(txt, IsAlnum, 1)
    IN  [i \in 1..Len(runs) |-> Lower(runs[i])]

\* a phrase matches a document that holds its tokens side by side, in order
PhraseIn(doc, phrase) ==
    \E i \in 1..(Len(doc) - Len(phrase) + 1) : SubSeq(doc, i, i + Len(phrase) - 1) = phrase

\* the row of the scratch index: f"{summary} {reason} {keywords_json}"
FtsRowText(row) == row.summary \o <<32>> \o row.reason \o <<32>> \o JsonList(row.keywords)

\* _cortex_graveyard_fts MATCH "t1 OR t2 ...": a bareword term is the
\* phrase of its tokens
FtsMatch(row, terms) ==
    LET doc == FtsTokens(FtsRowText(row))
    IN  \E i \in 1..Len(terms) : PhraseIn(doc, FtsTokens(terms[i]))

\* terms[:12]
FTS_MAX_TERMS == 12

\* SQLiteStore.list_graveyard_fts_candidates.  fts_ok is whether the
\* connection executes the CREATE ... VIRTUAL TABLE statement of lines
\* 243-246 without sqlite3.OperationalError; when it raises, the call
\* reports "unsupported" (None).  A stock SQLite has no CREATE TEMP VIRTUAL
\* TABLE in its grammar and raises; fts_ok = TRUE is a connection that
\* accepts the statement, which is the narrowing find_similar is written
\* against.  The matched rows are taken in descending id: the bm25 order
\* among them is not modelled, find_similar sorts the matches again.
list_graveyard_fts_candidates(table, tokens, limit, candidate_limit, fts_ok) ==
    LET terms == SelectSeq(tokens, FtsTokenOk)
        rows  == list_graveyard(table, limit)
    IN  IF terms = <<>> \/ rows = <<>> THEN [supported |-> TRUE, items |-> <<>>]
        ELSE IF ~fts_ok THEN [supported |-> FALSE, items |-> <<>>]
        ELSE [supported |-> TRUE,
              items |-> Take(SelectSeq(rows, LAMBDA row :
                                 FtsMatch(row, Take(terms, FTS_MAX_TERMS))),
                             Max(1, candidate_limit))]

\* A plausible slip: the insert replaces the rows of the same session, as
\* the upsert of the sessions table does
insert_graveyard_upsert(table, session_id, summary, reason, files, keywords, now) ==
    Append(SelectSeq(table, LAMBDA row : row.session_id # session_id),
           [id         |-> Len(table) + 1,
            session_id |-> session_id,
            summary    |-> summary,
            reason     |-> reason,
            files      |-> files,
            keywords   |-> keywords,
            created_at |-> now])

\* SQLiteStore.insert_graveyard: the row the INSERT adds; AUTOINCREMENT
\* gives it the id after the largest so far
insert_graveyard(table, session_id, summary, reason, files, keywords, now) ==
    Append(table,
           [id         |-> Len(table) + 1,
            session_id |-> session_id,
            summary    |-> summary,
            reason     |-> reason,
            files      |-> files,
            keywords   |-> keywords,
            created_at |-> now])

---------------------------------------------------------------------------
(* Graveyard  (graveyard.py 60-151).                                       *)
(* IDF weights are in thousandths; keyword, file and semantic scores in    *)
(* 1/10000; the combined score and the similarity threshold in millionths. *)

\* round(1000 * ln n), n = 1..210
LnMilliTable ==
    <<0, 693, 1099, 1386, 1609, 1792, 1946, 2079, 2197, 2303, 2398, 2485,
      2565, 2639, 2708, 2773, 2833, 2890, 2944, 2996, 3045, 3091, 3135, 3178,
      3219, 3258, 3296, 3332, 3367, 3401, 3434, 3466, 3497, 3526, 3555, 3584,
      3611, 3638, 3664, 3689, 3714, 3738, 3761, 3784, 3807, 3829, 3850, 3871,
      3892, 3912, 3932, 3951, 3970, 3989, 4007, 4025, 4043, 4060, 4078, 4094,
      4111, 4127, 4143, 4159, 4174, 4190, 4205, 4220, 4234, 4248, 4263, 4277,
      4290, 4304, 4317, 4331, 4344, 4357, 4369, 4382, 4394, 4407, 4419, 4431,
      4443, 4454, 4466, 4477, 4489, 4500, 4511, 4522, 4533, 4543, 4554, 4564,
      4575, 4585, 4595, 4605, 4615, 4625, 4635, 4644, 4654, 4663, 4673, 4682,
      4691, 4700, 4710, 4718, 4727, 4736, 4745, 4754, 4762, 4771, 4779, 4787,
      4796, 4804, 4812, 4820, 4828, 4836, 4844, 4852, 4860, 4868, 4875, 4883,
      4890, 4898, 4905, 4913, 4920, 4927, 4934, 4942, 4949, 4956, 4963, 4970,
      4977, 4984, 4990, 4997, 5004, 5011, 5017, 5024, 5030, 5037, 5043, 5050,
      5056, 5063, 5069, 5075, 5081, 5088, 5094, 5100, 5106, 5112, 5118, 5124,
      5130, 5136, 5142, 5147, 5153, 5159, 5165, 5170, 5176, 5182, 5187, 5193,
      5198, 5204, 5209, 5215, 5220, 5226, 5231, 5236, 5242, 5247, 5252, 5257,
      5263, 5268, 5273, 5278, 5283, 5288, 5293, 5298, 5303, 5308, 5313, 5318,
      5323, 5328, 5333, 5338, 5342, 5347>>

\* 1000 * ln(a / b)
LnRatioMilli(a, b) == LnMilliTable[a] - LnMilliTable[b]

\* list_graveyard(limit=200)
WINDOW_LIMIT == 200

\* candidate_limit=80
CANDIDATE_LIMIT == 80

\* Graveyard._load_candidate_entries
_load_candidate_entries(table, query_tokens, fts_ok) ==
    IF query_tokens = <<>> THEN list_graveyard(table, WINDOW_LIMIT)
    ELSE LET candidates == list_graveyard_fts_candidates(
                               table, query_tokens, WINDOW_LIMIT, CANDIDATE_LIMIT, fts_ok)
         IN  IF ~candidates.supported \/ candidates.items = <<>>
             THEN list_graveyard(table, WINDOW_LIMIT)
             ELSE candidates.items

\* A plausible slip: the IDF weights are computed over the candidates.
IdfSourceNarrowed(corpus_entries, entries) == entries

\* the entries the IDF weights are computed over: corpus_entries or entries
IdfSource(corpus_entries, entries) ==
    IF corpus_entries # <<>> THEN corpus_entries ELSE entries

\* df: the number of entries whose keywords hold the token
DocFreq(idf_source, tok) ==
    Cardinality({i \in 1..Len(idf_source) : tok \in ToSet(idf_source[i].keywords)})

\* query_idf[token] = log((len(idf_source) + 1) / (df + 1)) + 1.0
QueryIdf(idf_source, tok) ==
    LnRatioMilli(Len(idf_source) + 1, DocFreq(idf_source, tok) + 1) + 1000

\* sum(w[x] for x in S)
RECURSIVE SumOver(_, _)
SumOver(S, w) ==
    IF S = {} THEN 0
    ELSE LET x == CHOOSE y \in S : TRUE IN w[x] + SumOver(S \ {x}, w)

\* One pass of the scoring loop: the measures of an entry against the query
Measure(entry, query_keywords, query_token_set, query_files, query_idf) ==
    LET entry_keywords  == ToSet(entry.keywords)
        entry_tokens    == _tokenize(entry.summary \o <<32>> \o entry.reason)
        entry_files     == {_norm_path(entry.files[i]) : i \in 1..Len(entry.files)}
        keyword_overlap == query_keywords \cap entry_keywords
        file_overlap    == query_files \cap entry_files
        idf             == query_idf
        weight_sum      == SumOver(query_keywords, idf)
        query_weight    == IF weight_sum = 0 THEN 1000 ELSE weight_sum
        keyword_score   == (SumOver(keyword_overlap, idf) * 10000) \div query_weight
        file_score      == IF query_files # {}
                           THEN (Cardinality(file_overlap) * 10000)
                                    \div Max(1, Cardinality(query_files))
                           ELSE 0
        semantic_score  == _token_jaccard(query_token_set, ToSet(entry_tokens))
    IN  [entry_id        |-> entry.id,
         score           |-> 45 * keyword_score + 25 * file_score + 30 * semantic_score,
         summary         |-> entry.summary,
         reason          |-> entry.reason,
         files           |-> entry.files,
         keyword_overlap |-> keyword_overlap,
         file_overlap    |-> file_overlap,
         semantic_score  |-> semantic_score * 100,
         created_at      |-> entry.created_at]

\* the gate: the entry is skipped when all three conditions fail
PassesGate(m, config) ==
    ~ ( /\ Cardinality(m.keyword_overlap) < config.min_keyword_overlap
        /\ m.file_overlap = {}
        /\ m.semantic_score < config.similarity_threshold )

\* A plausible slip: the final filter on the combined score is left out.
PassesThresholdAlways(m, config) == TRUE

\* if score < self.config.similarity_threshold: continue
PassesThreshold(m, config) == m.score >= config.similarity_threshold

\* the sort key (m.score, m.entry_id), reverse=True: a before-or-equal b
MatchKeyGeq(a, b) ==
    \/ a.score > b.score
    \/ a.score = b.score /\ a.entry_id >= b.entry_id

RECURSIVE MatchInsert(_, _)
MatchInsert(sorted, m) ==
    IF sorted = <<>> THEN <<m>>
    ELSE IF MatchKeyGeq(sorted[Len(sorted)], m) THEN Append(sorted, m)
    ELSE Append(MatchInsert(SubSeq(sorted, 1, Len(sorted) - 1), m), sorted[Len(sorted)])

RECURSIVE MatchSort(_)
MatchSort(scored) ==
    IF scored = <<>> THEN <<>>
    ELSE MatchInsert(MatchSort(SubSeq(scored, 1, Len(scored) - 1)), scored[Len(scored)])

\* seq[:n] for any integer n
PySlicePrefix(s, n) ==
    IF n >= 0 THEN SubSeq(s, 1, Min(Len(s), n)) ELSE SubSeq(s, 1, Max(0, Len(s) + n))

\* (max_matches or self.config.max_matches); None is {} and n is {n}
MatchLimit(max_matches, config) ==
    IF max_matches = {} \/ max_matches = {0} THEN config.max_matches
    ELSE CHOOSE n \in max_matches : TRUE

\* A plausible slip: an empty query is scored like any other
ScoredMatchesOfEmptyQuery(table, config, summary, files, fts_ok) ==
    LET query_keywords  == _keywords(summary)
        query_tokens    == _tokenize(summary)
        query_files     == {_norm_path(files[i]) : i \in {j \in 1..Len(files) : files[j] # <<>>}}
        entries         == _load_candidate_entries(table, query_tokens, fts_ok)
        idf_source      == IdfSource(list_graveyard(table, WINDOW_LIMIT), entries)
        query_idf       == [tok \in query_keywords |-> QueryIdf(idf_source, tok)] @@ <<>>
        measured        == [i \in 1..Len(entries) |->
                               Measure(entries[i], query_keywords, ToSet(query_tokens),
                                       query_files, query_idf)]
    IN  SelectSeq(measured, LAMBDA m : PassesGate(m, config) /\ PassesThreshold(m, config))

\* the scored list before sorting and cutting: the entries that pass the
\* gate and the threshold, in the order of the candidate entries
ScoredMatches(table, config, summary, files, fts_ok) ==
    LET query_keywords  == _keywords(summary)
        query_tokens    == _tokenize(summary)
        query_token_set == ToSet(query_tokens)
        query_files     == {_norm_path(files[i]) : i \in {j \in 1..Len(files) : files[j] # <<>>}}
        corpus_entries  == list_graveyard(table, WINDOW_LIMIT)
        entries         == _load_candidate_entries(table, query_tokens, fts_ok)
        idf_source      == IdfSource(corpus_entries, entries)
        query_idf       == [tok \in query_keywords |-> QueryIdf(idf_source, tok)] @@ <<>>
        measured        == [i \in 1..Len(entries) |->
                               Measure(entries[i], query_keywords, query_token_set,
                                       query_files, query_idf)]
    IN  IF query_tokens = <<>> /\ query_files = {} THEN <<>>
        ELSE SelectSeq(measured,
                       LAMBDA m : PassesGate(m, config) /\ PassesThreshold(m, config))

\* the store methods find_similar invokes, in order (lines 91-102, 145-151)
FindSimilarStoreCalls(table, config, summary, files, fts_ok) ==
    LET query_tokens == _tokenize(summary)
        query_files  == {_norm_path(files[i]) : i \in {j \in 1..Len(files) : files[j] # <<>>}}
        candidates   == list_graveyard_fts_candidates(
                            table, query_tokens, WINDOW_LIMIT, CANDIDATE_LIMIT, fts_ok)
    IN  IF ~config.enabled THEN <<>>
        ELSE IF query_tokens = <<>> /\ query_files = {} THEN <<>>
        ELSE IF query_tokens = <<>> THEN <<"list_graveyard", "list_graveyard">>
        ELSE IF ~candidates.supported \/ candidates.items = <<>>
        THEN <<"list_graveyard", "list_graveyard_fts_candidates", "list_graveyard">>
        ELSE <<"list_graveyard", "list_graveyard_fts_candidates">>

\* Graveyard.find_similar
find_similar(table, config, summary, files, max_matches, fts_ok) ==
    IF ~config.enabled THEN <<>>
    ELSE PySlicePrefix(MatchSort(ScoredMatches(table, config, summary, files, fts_ok)),
                       MatchLimit(max_matches, config))

---------------------------------------------------------------------------
(* SpecRender: _render_text applied to bounded inputs *)

\* longest ranking list tried
MaxRanking == 3

\* "src/" + n filler characters c + ".py"
PaddedPath(c, n) == <<115, 114, 99, 47>> \o Rep(c, n) \o <<46, 112, 121>>

\* "def f"
SymDefF == <<100, 101, 102, 32, 102>>

\* Ranking entries of 26, 116, 216 and 266 bytes in ASCII, and one whose
\* path holds three-byte characters (U+65E5), 106 bytes in 46 characters.
RenderEntryPool ==
    { [path |-> PaddedPath(97, 10),  score |-> 1234,  symbols |-> <<>>],
      [path |-> PaddedPath(98, 90),  score |-> 27600, symbols |-> <<SymDefF>>],
      [path |-> PaddedPath(99, 200), score |-> 2000,  symbols |-> <<>>],
      [path |-> PaddedPath(100, 250), score |-> 0,    symbols |-> <<>>],
      [path |-> PaddedPath(26085, 30), score |-> 999, symbols |-> <<>>] }

\* max_text_bytes values tried: below, at and above the floor
RenderBudgets == {0, 100, 256, 300, 480}

RenderInit ==
    /\ rt_ranking \in SeqsUpTo(RenderEntryPool, MaxRanking)
    /\ rt_max_text_bytes \in RenderBudgets
    /\ rt_text = <<>>
    /\ rt_done = FALSE

RenderText ==
    /\ ~rt_done
    /\ rt_text' = _render_text(rt_ranking, rt_max_text_bytes)
    /\ rt_done' = TRUE
    /\ UNCHANGED <<rt_ranking, rt_max_text_bytes>>

RenderIdle ==
    /\ rt_ranking = <<>>
    /\ rt_max_text_bytes = 0
    /\ rt_text = <<>>
    /\ rt_done = TRUE

---------------------------------------------------------------------------
(* SpecRank: _rank_files applied to bounded inputs *)

\* longest analyses list tried
MaxAnalyses == 3

\* directory levels of the deeply nested test files
DeepDirs == 33

\* "a.py", "b.py", "core.py", "src/", "tests/"
StrAPy == <<97, 46, 112, 121>>

StrBPy == <<98, 46, 112, 121>>

StrCorePy == <<99, 111, 114, 101, 46, 112, 121>>

StrSrcDir == <<115, 114, 99, 47>>

StrTestsDir == <<116, 101, 115, 116, 115, 47>>

\* n times "tests/"
RECURSIVE TestsDirs(_)
TestsDirs(n) == IF n = 0 THEN <<>> ELSE StrTestsDir \o TestsDirs(n - 1)

Analysis(path, symbol_count, line_count) ==
    [path |-> path, symbol_count |-> symbol_count, line_count |-> line_count,
     symbols |-> IF symbol_count > 0 THEN <<SymDefF>> ELSE <<>>]

\* a.py and b.py differ in nothing but the path, at the top level and
\* DeepDirs levels down; src/core.py and tests/a.py score apart
AnalysisPool ==
    { Analysis(StrAPy, 0, 1),
      Analysis(StrBPy, 0, 1),
      Analysis(StrSrcDir \o StrCorePy, 2, 40),
      Analysis(StrTestsDir \o StrAPy, 0, 1),
      Analysis(TestsDirs(DeepDirs) \o StrAPy, 0, 1),
      Analysis(TestsDirs(DeepDirs) \o StrBPy, 0, 1) }

\* sequences of analyses of distinct paths, as discovery produces them
DistinctPathSeqs(S, n) ==
    {s \in SeqsUpTo(S, n) : \A i, j \in 1..Len(s) : i # j => s[i].path # s[j].path}

FocusChoices ==
    { {}, {StrBPy}, {TestsDirs(DeepDirs) \o StrBPy} }

\* graph_scores: none, or the PageRank peak (1.0) on b.py
GraphChoices ==
    { <<>>, [p \in {StrBPy} |-> 1000] }

RankInit ==
    /\ rk_analyses \in DistinctPathSeqs(AnalysisPool, MaxAnalyses)
    /\ rk_focus_files \in FocusChoices
    /\ rk_max_files \in {0, 2, MaxAnalyses}
    /\ rk_graph_scores \in GraphChoices
    /\ rk_ranking = <<>>
    /\ rk_done = FALSE

RankFiles ==
    /\ ~rk_done
    /\ rk_ranking' = _rank_files(rk_analyses, rk_focus_files, rk_max_files, rk_graph_scores)
    /\ rk_done' = TRUE
    /\ UNCHANGED <<rk_analyses, rk_focus_files, rk_max_files, rk_graph_scores>>

RankIdle ==
    /\ rk_analyses = <<>>
    /\ rk_focus_files = {}
    /\ rk_max_files = 0
    /\ rk_graph_scores = <<>>
    /\ rk_ranking = <<>>
    /\ rk_done = TRUE

---------------------------------------------------------------------------
(* Spec: record_failure and find_similar against a store *)

\* most failure records stored
MaxRecords == 3

\* "member list"
TxtMemberList == <<109, 101, 109, 98, 101, 114, 32, 108, 105, 115, 116>>

\* "Sticky header"
TxtStickyHeader == <<83, 116, 105, 99, 107, 121, 32, 104, 101, 97, 100, 101, 114>>

\* "payment retries"
TxtPaymentRetries == <<112, 97, 121, 109, 101, 110, 116, 32, 114, 101, 116, 114, 105, 101, 115>>

\* "idempotency mismatch"
TxtMismatch == <<105, 100, 101, 109, 112, 111, 116, 101, 110, 99, 121, 32, 109, 105, 115, 109, 97, 116, 99, 104>>

\* "Redis timeout"
TxtRedisTimeout == <<82, 101, 100, 105, 115, 32, 116, 105, 109, 101, 111, 117, 116>>

\* "Cache failed"
TxtCacheFailed == <<67, 97, 99, 104, 101, 32, 102, 97, 105, 108, 101, 100>>

\* "cache latency failure"
TxtCacheLatencyFailure == <<99, 97, 99, 104, 101, 32, 108, 97, 116, 101, 110, 99, 121, 32, 102, 97, 105, 108, 117, 114, 101>>

\* "member outage"
TxtMemberOutage == <<109, 101, 109, 98, 101, 114, 32, 111, 117, 116, 97, 103, 101>>

\* "src/list.tsx"
FileList == <<115, 114, 99, 47, 108, 105, 115, 116, 46, 116, 115, 120>>

\* "src/payments.ts"
FilePayments == <<115, 114, 99, 47, 112, 97, 121, 109, 101, 110, 116, 115, 46, 116, 115>>

\* "src/cache.py"
FileCache == <<115, 114, 99, 47, 99, 97, 99, 104, 101, 46, 112, 121>>

\* "./src//payments.ts"
FilePaymentsDot == <<46, 47, 115, 114, 99, 47, 47, 112, 97, 121, 109, 101, 110, 116, 115, 46, 116, 115>>


\* GraveyardConfig: the defaults (genome.py 39-42), the thresholds the
\* tests use, and the graveyard switched off
GraveyardConfigs ==
    { [enabled |-> TRUE,  max_matches |-> 5, similarity_threshold |-> 350000,
       min_keyword_overlap |-> 1],
      [enabled |-> TRUE,  max_matches |-> 2, similarity_threshold |-> 200000,
       min_keyword_overlap |-> 1],
      [enabled |-> TRUE,  max_matches |-> 1, similarity_threshold |-> 0,
       min_keyword_overlap |-> 0],
      [enabled |-> FALSE, max_matches |-> 5, similarity_threshold |-> 350000,
       min_keyword_overlap |-> 1] }

\* the failures recorded
FailurePool ==
    { [summary |-> TxtMemberList,     reason |-> TxtStickyHeader, files |-> <<FileList>>],
      [summary |-> TxtPaymentRetries, reason |-> TxtMismatch,     files |-> <<FilePayments>>],
      [summary |-> TxtRedisTimeout,   reason |-> TxtCacheFailed,  files |-> <<FileCache>>] }

\* the queries asked
QueryPool ==
    { [summary |-> TxtMemberList,          files |-> <<FilePaymentsDot>>],
      [summary |-> TxtCacheLatencyFailure, files |-> <<>>],
      [summary |-> TxtMemberOutage,        files |-> <<>>],
      [summary |-> <<>>,                   files |-> <<>>] }

\* max_matches: not passed (None), 0, 1
MaxMatchesChoices == { {}, {0}, {1} }

NoQuery == [summary |-> <<>>, files |-> <<>>, max_matches |-> {}]

GraveInit ==
    /\ gy_table = <<>>
    /\ gy_config \in GraveyardConfigs
    /\ gy_fts_ok \in BOOLEAN
    /\ gy_now = 1
    /\ gy_op = "init"
    /\ gy_query = NoQuery
    /\ gy_matches = <<>>
    /\ gy_store_calls = <<>>

\* Graveyard.record_failure(session_id, summary, reason, files), while the
\* store holds fewer than `most` records
RecordFailureUpTo(most) ==
    \E f \in FailurePool :
        /\ Len(gy_table) < most
        /\ IF ~gy_config.enabled
           THEN UNCHANGED <<gy_table, gy_now>>
           ELSE /\ gy_table' = insert_graveyard(
                                   gy_table, "sess-1", f.summary, f.reason, f.files,
                                   SortedStrings(_keywords(f.summary) \cup _keywords(f.reason)),
                                   gy_now)
                /\ gy_now' = gy_now + 1
        /\ gy_op' = "record_failure"
        /\ gy_query' = NoQuery
        /\ gy_matches' = <<>>
        /\ gy_store_calls' = IF gy_config.enabled THEN <<"insert_graveyard">> ELSE <<>>
        /\ UNCHANGED <<gy_config, gy_fts_ok>>

RecordFailure == RecordFailureUpTo(MaxRecords)

\* Graveyard.find_similar(summary, files, max_matches=...)
FindSimilar ==
    \E q \in QueryPool, mm \in MaxMatchesChoices :
        /\ gy_matches' = find_similar(gy_table, gy_config, q.summary, q.files, mm, gy_fts_ok)
        /\ gy_query' = [summary |-> q.summary, files |-> q.files, max_matches |-> mm]
        /\ gy_op' = "find_similar"
        /\ gy_store_calls' = FindSimilarStoreCalls(gy_table, gy_config, q.summary, q.files, gy_fts_ok)
        /\ UNCHANGED <<gy_table, gy_config, gy_fts_ok, gy_now>>

GraveIdle ==
    /\ gy_table = <<>>
    /\ gy_config = [enabled |-> FALSE, max_matches |-> 0, similarity_threshold |-> 0,
                    min_keyword_overlap |-> 0]
    /\ gy_fts_ok = FALSE
    /\ gy_now = 0
    /\ gy_op = "idle"
    /\ gy_query = NoQuery
    /\ gy_matches = <<>>
    /\ gy_store_calls = <<>>

---------------------------------------------------------------------------
(* SpecWindow: find_similar against a store that earlier sessions filled   *)
(* up to the window of list_graveyard(limit=200)                           *)

\* "quota" / "disk"
TxtQuota == <<113, 117, 111, 116, 97>>

TxtDisk == <<100, 105, 115, 107>>

\* the row record_failure stored for a failure under the id given
StoredRow(id, f) ==
    [id         |-> id,
     session_id |-> "sess-0",
     summary    |-> f.summary,
     reason     |-> f.reason,
     files      |-> f.files,
     keywords   |-> SortedStrings(_keywords(f.summary) \cup _keywords(f.reason)),
     created_at |-> 0]

\* a store of n records: the oldest is the "member list" failure, the others
\* are alike and share no word and no file with it
FilledStore(n) ==
    LET oldest == CHOOSE f \in FailurePool : f.summary = TxtMemberList
        other  == [summary |-> TxtQuota, reason |-> TxtDisk, files |-> <<>>]
    IN  [i \in 1..n |-> IF i = 1 THEN StoredRow(i, oldest) ELSE StoredRow(i, other)] @@ <<>>

\* the store holds exactly the window; the configurations are the enabled
\* ones with a threshold, under which the records unlike the query are not
\* returned
WindowInit ==
    /\ gy_table = FilledStore(WINDOW_LIMIT)
    /\ gy_config \in {c \in GraveyardConfigs : c.enabled /\ c.similarity_threshold > 0}
    /\ gy_fts_ok \in BOOLEAN
    /\ gy_now = 1
    /\ gy_op = "init"
    /\ gy_query = NoQuery
    /\ gy_matches = <<>>
    /\ gy_store_calls = <<>>

\* record_failure until the store holds one record more than the window
RecordBeyondWindow == RecordFailureUpTo(WINDOW_LIMIT + 1)

---------------------------------------------------------------------------
(* PageRank  (repomap.py 761-837).                                         *)
(* Ranks are in millionths, so that tol = 1e-6 is one unit; the scores     *)
(* _pagerank_scores_with_backend returns, scaled to the peak, are in       *)
(* thousandths.  Edges are a set of <<src, dst>> pairs.                     *)

\* outgoing[src] (lines 807-813): edges with an end outside the paths are skipped
Outgoing(nodes, edges, src) == { e[2] : e \in { x \in edges : x[1] = src /\ x[1] \in nodes /\ x[2] \in nodes } }

\* incoming[dst]
Incoming(nodes, edges, dst) == { e[1] : e \in { x \in edges : x[2] = dst /\ x[1] \in nodes /\ x[2] \in nodes } }

\* A plausible slip: the inbound rank is left out of the sum
PagerankPassWithoutInbound(nodes, n, outgoing, incoming, rank) ==
    LET base     == 150000 \div n
        dangling == SumOver({ x \in nodes : outgoing[x] = {} }, rank)
    IN  [ node \in nodes |-> base + (85 * (dangling \div n)) \div 100 ] @@ <<>>

\* one pass of the loop (lines 818-830): next_rank.
\* (f @@ <<>> is f, held as a table so that its values are computed once)
PagerankPass(nodes, n, outgoing, incoming, rank) ==
    LET base     == 150000 \div n
        dangling == SumOver({ x \in nodes : outgoing[x] = {} }, rank)
        share    == [ x \in nodes |->
                        IF outgoing[x] = {} THEN 0 ELSE rank[x] \div Cardinality(outgoing[x]) ] @@ <<>>
    IN  [ node \in nodes |->
            base + (85 * (SumOver(incoming[node], share) + dangling \div n)) \div 100 ] @@ <<>>

\* the loop (lines 817-833): at most passes more passes, left when diff <= tol.
\* st is [rank, done]; the passes are run by halves, to keep the evaluation shallow.
RECURSIVE PagerankLoop(_, _, _, _, _, _)
PagerankLoop(nodes, n, outgoing, incoming, st, passes) ==
    IF st.done \/ passes = 0 THEN st
    ELSE IF passes = 1
    THEN LET next_rank == PagerankPass(nodes, n, outgoing, incoming, st.rank)
             diff == SumOver(nodes, [ x \in nodes |-> Max(next_rank[x] - st.rank[x], st.rank[x] - next_rank[x]) ])
         IN  [rank |-> next_rank, done |-> diff <= 1]
    ELSE PagerankLoop(nodes, n, outgoing, incoming,
                      PagerankLoop(nodes, n, outgoing, incoming, st, passes \div 2),
                      passes - passes \div 2)

\* _pagerank_scores_simple, alpha = 0.85, max_iter = 100, tol = 1e-6
_pagerank_scores_simple(paths, edges) ==
    IF paths = <<>> THEN <<>>
    ELSE LET nodes    == ToSet(paths)
             n        == Len(paths)
             outgoing == [ x \in nodes |-> Outgoing(nodes, edges, x) ] @@ <<>>
             incoming == [ x \in nodes |-> Incoming(nodes, edges, x) ] @@ <<>>
             rank     == PagerankLoop(nodes, n, outgoing, incoming,
                                      [rank |-> [ x \in nodes |-> 1000000 \div n ], done |-> FALSE], 100).rank
             total    == SumOver(nodes, rank)
         IN  IF total <= 0 THEN [ x \in nodes |-> 0 ]
             ELSE [ x \in nodes |-> (rank[x] * 1000) \div Max(1, total \div 1000) ] @@ <<>>

\* _pagerank_scores_networkx: the library is not part of the repository.
\* Its result is {} (the import fails, or nx.pagerank raises) or some
\* non-negative rank for every path.
NetworkxOutcomes(paths) ==
    {<<>>} \cup { [ x \in ToSet(paths) |-> IF x = paths[1] THEN first ELSE rest ]
                    : first \in {0, 250000}, rest \in {0, 400000}, k \in {1} \cap {Min(1, Len(paths))} }

\* A plausible slip: the scores are divided by their sum, not their maximum
PeakAsTotal(scores) == SumOver(DOMAIN scores, scores)

\* max(scores.values(), default=0.0)
Peak(scores) == IF DOMAIN scores = {} THEN 0 ELSE CHOOSE v \in { scores[x] : x \in DOMAIN scores } : \A x \in DOMAIN scores : scores[x] <= v

\* A plausible slip: the backend's name is not changed when the fallback runs
_pagerank_scores_with_first_backend(paths, edges, networkx_scores) ==
    IF paths = <<>> THEN [scores |-> <<>>, backend |-> "none"]
    ELSE LET scores == IF networkx_scores # <<>> THEN networkx_scores
                       ELSE _pagerank_scores_simple(paths, edges)
             peak   == Peak(scores)
         IN  [scores |-> [ path \in ToSet(paths) |->
                             IF peak <= 0 THEN 0 ELSE (scores[path] * 1000) \div peak ],
              backend |-> "networkx"]

\* _pagerank_scores_with_backend, given what _pagerank_scores_networkx returns
_pagerank_scores_with_backend(paths, edges, networkx_scores) ==
    IF paths = <<>> THEN [scores |-> <<>>, backend |-> "none"]
    ELSE LET library == networkx_scores # <<>>
             scores  == IF library THEN networkx_scores ELSE _pagerank_scores_simple(paths, edges)
             backend == IF library THEN "networkx" ELSE "simple"
             peak    == Peak(scores)
         IN  IF peak <= 0 THEN [scores |-> [ path \in ToSet(paths) |-> 0 ], backend |-> backend]
             ELSE [scores |-> [ path \in ToSet(paths) |-> (scores[path] * 1000) \div peak ],
                   backend |-> backend]

---------------------------------------------------------------------------
(* run_repomap  (repomap.py 260-428, 930-994) *)

SCHEMA_VERSION == "repomap_artifact_v1"

\* the selected scope: the caller's scope, which _select_scope returns as
\* it is when the caller supplied one
SelectedScope == <<"src">>

\* _duration_ms(start): whole milliseconds since start, never negative
_duration_ms(elapsed) == Max(0, elapsed)

\* _timed_out(start, timeout_ms): None never, <= 0 always, else when the
\* duration is past the budget
_timed_out(elapsed, timeout_ms) ==
    IF timeout_ms = {} THEN FALSE
    ELSE LET t == CHOOSE n \in timeout_ms : TRUE
         IN  IF t <= 0 THEN TRUE ELSE _duration_ms(elapsed) > t

\* the codes _failure_artifact marks retryable
RetryableCodes == {"deps_missing", "timeout", "scan_failed", "write_failed"}

ZeroStats ==
    [files_parsed |-> 0, symbols_found |-> 0, graph_edges |-> 0, byte_count |-> 0]

\* A plausible slip: the failure artifact carries no error object.
_failure_artifact_without_error(code, message, focus_files, elapsed, timeout_ms, failed_stage) ==
    [ok |-> FALSE, generated_at |-> elapsed, schema_version |-> SCHEMA_VERSION,
     provenance |-> [method |-> "none", source_root |-> "root",
                     scope |-> SelectedScope, focus_files |-> focus_files,
                     duration_ms |-> _duration_ms(elapsed), timeout_ms |-> timeout_ms],
     stats |-> ZeroStats, ranking |-> <<>>, text |-> <<>>, error |-> {}]

\* _failure_artifact: ok=false, zero stats, no ranking, no text, the error
_failure_artifact(code, message, focus_files, elapsed, timeout_ms, failed_stage) ==
    [ok |-> FALSE, generated_at |-> elapsed, schema_version |-> SCHEMA_VERSION,
     provenance |-> [method |-> "none", source_root |-> "root",
                     scope |-> SelectedScope, focus_files |-> focus_files,
                     duration_ms |-> _duration_ms(elapsed), timeout_ms |-> timeout_ms],
     stats |-> ZeroStats, ranking |-> <<>>, text |-> <<>>,
     error |-> {[code |-> code, message |-> message,
                 retryable |-> code \in RetryableCodes,
                 failed_stage |-> failed_stage]}]

\* RepoMapRunResult(artifact=..., artifact_path=..., session_artifact_path=...);
\* raised names the exception that left run_repomap, "none" when it returned
Returned(artifact, artifact_path, session_artifact_path) ==
    [raised |-> "none", artifact |-> {artifact},
     artifact_path |-> artifact_path, session_artifact_path |-> session_artifact_path]

Raised(exc) ==
    [raised |-> exc, artifact |-> {}, artifact_path |-> {}, session_artifact_path |-> {}]

\* the built-in exception classes: TimeoutError and PermissionError are
\* subclasses of OSError
IsInstance(exc, cls) ==
    \/ exc = cls
    \/ cls = "OSError" /\ exc \in {"TimeoutError", "PermissionError"}

\* A plausible slip: only TimeoutError is caught around _discover_files.
DiscoveryExceptUncaught(exc, focus_files, elapsed, timeout_ms) ==
    IF IsInstance(exc, "TimeoutError")
    THEN Returned(_failure_artifact("timeout",
                      "Repo-map generation timed out during file discovery.",
                      focus_files, elapsed, timeout_ms, "discovery"), {}, {})
    ELSE Raised(exc)

\* the except clauses around _discover_files (lines 330-353), in order:
\* except TimeoutError, then except OSError
DiscoveryExcept(exc, focus_files, elapsed, timeout_ms) ==
    IF IsInstance(exc, "TimeoutError")
    THEN Returned(_failure_artifact("timeout",
                      "Repo-map generation timed out during file discovery.",
                      focus_files, elapsed, timeout_ms, "discovery"), {}, {})
    ELSE IF IsInstance(exc, "OSError")
    THEN Returned(_failure_artifact("scan_failed",
                      "Failed during file discovery",
                      focus_files, elapsed, timeout_ms, "discovery"), {}, {})
    ELSE Raised(exc)

\* the except clause around the writes (lines 411-422): except OSError
WriteExcept(exc, focus_files, elapsed, timeout_ms) ==
    IF IsInstance(exc, "OSError")
    THEN Returned(_failure_artifact("write_failed",
                      "Failed to write repo-map artifact",
                      focus_files, elapsed, timeout_ms, "write"), {}, {})
    ELSE Raised(exc)

\* an argument that is None falls back on the configuration's value
OrConfig(arg, config_value) == IF arg = {} THEN config_value ELSE CHOOSE n \in arg : TRUE

\* f"{score:.3f}" works on the score to three decimals
ToMilli(ranking) ==
    [i \in 1..Len(ranking) |-> [ranking[i] EXCEPT !.score = (@ + 1) \div 2]]

\* what _build_dependency_edges and _pagerank_scores_with_backend hand
\* back for the analysed paths (lines 361-364): the number of edges, which
\* may join any two of the paths, what the library returned, the scores
\* scaled to a peak of 1.0 and the backend
GraphOutcomes(paths) ==
    { LET graph == _pagerank_scores_with_backend(paths, edges, networkx)
      IN  [edges |-> Cardinality(edges), networkx |-> networkx,
           scores |-> graph.scores, backend |-> graph.backend]
        : edges \in SUBSET { e \in ToSet(paths) \X ToSet(paths) : e[1] # e[2] },
          networkx \in NetworkxOutcomes(paths) }

\* the artifact of a successful run (lines 355-397)
SuccessArtifact(analyses, args, max_files, max_text_bytes, config, graph, elapsed) ==
    LET ast_mode_active == config.prefer_ast_graph
        ranking == _rank_files(analyses, ToSet(args.focus_files), max_files,
                               IF ast_mode_active THEN graph.scores ELSE <<>>)
        text    == _render_text(ToMilli(ranking), max_text_bytes)
    IN  [ok |-> TRUE, generated_at |-> elapsed, schema_version |-> SCHEMA_VERSION,
         provenance |->
             [method |-> IF ast_mode_active THEN "ast_pagerank" ELSE "heuristic_fallback",
              source_root |-> "root", scope |-> SelectedScope,
              focus_files |-> args.focus_files,
              duration_ms |-> _duration_ms(elapsed), timeout_ms |-> args.timeout_ms,
              ast_requested |-> config.prefer_ast_graph,
              ast_enabled |-> ast_mode_active,
              missing_deps |-> <<>>,
              pagerank_backend |-> IF ast_mode_active THEN graph.backend ELSE "none"],
         stats |->
             [files_parsed |-> Len(analyses),
              symbols_found |-> SumSeq([i \in 1..Len(analyses) |-> analyses[i].symbol_count]),
              graph_edges |-> IF ast_mode_active THEN graph.edges ELSE 0,
              byte_count |-> EncodeLen(text)],
         ranking |-> ranking, text |-> text, error |-> {}]

---------------------------------------------------------------------------
(* SpecRun: one run_repomap call, step by step *)

\* most passes of the discovery loops through a timeout check
MaxVisits == 2

\* most milliseconds the clock advances during the call
MaxElapsed == 2

\* what one pass of discovery finds: nothing, a.py or b.py
DirPool == { <<>>, <<Analysis(StrAPy, 0, 1)>>, <<Analysis(StrBPy, 1, 3)>> }

\* RepomapConfig (genome.py 55-65): the defaults, and small limits with the
\* AST graph switched off
RepomapConfigs ==
    { [prefer_ast_graph |-> TRUE,  max_ranked_files |-> 20, max_text_bytes |-> 8192,
       session_start_timeout_ms |-> 2500],
      [prefer_ast_graph |-> FALSE, max_ranked_files |-> 0,  max_text_bytes |-> 0,
       session_start_timeout_ms |-> 0] }

\* the caller's keyword arguments; {} is None
RunArgs ==
    { [timeout_ms |-> t, session_id |-> s, focus_files |-> f,
       max_files |-> {}, max_text_bytes |-> {}]
          : t \in {{}, {-1}, {0}, {1}}, s \in {{}, {"s1"}}, f \in {<<>>, <<StrBPy>>} }

NoFault == [at |-> "none", exc |-> "none"]

RunInit ==
    /\ rr_root \in {"dir", "file", "missing"}
    /\ rr_config \in RepomapConfigs
    /\ rr_args \in RunArgs
    /\ rr_tree \in {t \in SeqsUpTo(DirPool, MaxVisits) : t # <<>>}
    /\ rr_pc = "check_root"
    /\ rr_elapsed = 0
    /\ rr_visited = 0
    /\ rr_discovered = <<>>
    /\ rr_analysed = FALSE
    /\ rr_artifact = {}
    /\ rr_written = {}
    /\ rr_fault = NoFault
    /\ rr_result = {}
    /\ rr_networkx = {}

\* the clock moves on while a step runs
Tick == \E dt \in 0..1 :
    /\ rr_elapsed + dt <= MaxElapsed
    /\ rr_elapsed' = rr_elapsed + dt

\* the call returns or raises
Finish(result, fault) ==
    /\ rr_result' = {result}
    /\ rr_fault' = fault
    /\ rr_pc' = "done"

\* lines 297-308
CheckRoot ==
    /\ rr_pc = "check_root"
    /\ Tick
    /\ IF rr_root # "dir"
       THEN Finish(Returned(_failure_artifact("scan_failed",
                        "Project root does not exist or is not a directory",
                        rr_args.focus_files, rr_elapsed', rr_args.timeout_ms,
                        "discovery"), {}, {}),
                   [at |-> "root", exc |-> "none"])
       ELSE rr_pc' = "check_timeout" /\ UNCHANGED <<rr_result, rr_fault>>
    /\ UNCHANGED <<rr_root, rr_config, rr_args, rr_tree, rr_networkx, rr_visited,
                   rr_discovered,
                   rr_analysed, rr_artifact, rr_written>>

\* lines 310-321
CheckTimeout ==
    /\ rr_pc = "check_timeout"
    /\ UNCHANGED rr_elapsed
    /\ IF _timed_out(rr_elapsed, rr_args.timeout_ms)
       THEN Finish(Returned(_failure_artifact("timeout",
                        "Repo-map generation timed out before discovery started.",
                        rr_args.focus_files, rr_elapsed, rr_args.timeout_ms,
                        "discovery"), {}, {}),
                   [at |-> "timeout_check", exc |-> "none"])
       ELSE rr_pc' = "discover" /\ UNCHANGED <<rr_result, rr_fault>>
    /\ UNCHANGED <<rr_root, rr_config, rr_args, rr_tree, rr_networkx, rr_visited,
                   rr_discovered,
                   rr_analysed, rr_artifact, rr_written>>

\* one pass of the loops of _discover_files (lines 441-471) inside the try
\* of lines 323-353: the timeout check, then the file system, which
\* answers or fails with an OSError
Discover ==
    /\ rr_pc = "discover"
    /\ rr_visited < Len(rr_tree)
    /\ Tick
    /\ IF _timed_out(rr_elapsed, rr_args.timeout_ms)
       THEN /\ Finish(DiscoveryExcept("TimeoutError", rr_args.focus_files,
                                      rr_elapsed', rr_args.timeout_ms),
                      [at |-> "timeout_check", exc |-> "TimeoutError"])
            /\ UNCHANGED <<rr_visited, rr_discovered>>
       ELSE \/ /\ rr_visited' = rr_visited + 1
               /\ rr_discovered' =
                      rr_discovered \o
                      SelectSeq(rr_tree[rr_visited + 1],
                                LAMBDA f : \A i \in 1..Len(rr_discovered) :
                                               rr_discovered[i].path # f.path)
               /\ UNCHANGED <<rr_pc, rr_result, rr_fault>>
            \/ \E exc \in {"PermissionError", "TimeoutError"} :
                   /\ Finish(DiscoveryExcept(exc, rr_args.focus_files,
                                             rr_elapsed', rr_args.timeout_ms),
                             [at |-> "discovery", exc |-> exc])
                   /\ UNCHANGED <<rr_visited, rr_discovered>>
    /\ UNCHANGED <<rr_root, rr_config, rr_args, rr_tree, rr_networkx, rr_analysed, rr_artifact,
                   rr_written>>

\* the files in sorted order (line 472), as _analyze_files reads them
SortedAnalyses(found) ==
    LET paths == SortedStrings({found[i].path : i \in 1..Len(found)})
    IN  [i \in 1..Len(paths) |->
            CHOOSE f \in ToSet(found) : f.path = paths[i]]

\* lines 355-397: analysis, edges, PageRank, ranking, rendering, artifact
BuildArtifact ==
    /\ rr_pc = "discover"
    /\ rr_visited = Len(rr_tree)
    /\ Tick
    /\ LET analyses == SortedAnalyses(rr_discovered)
           paths    == [i \in 1..Len(analyses) |-> analyses[i].path]
       IN  \E graph \in GraphOutcomes(paths) :
               /\ rr_artifact' =
                   {SuccessArtifact(
                        analyses, rr_args,
                        Max(1, OrConfig(rr_args.max_files, rr_config.max_ranked_files)),
                        Max(256, OrConfig(rr_args.max_text_bytes, rr_config.max_text_bytes)),
                        rr_config, graph, rr_elapsed')}
               /\ rr_networkx' = IF rr_config.prefer_ast_graph /\ paths # <<>>
                                 THEN {graph.networkx} ELSE {}
    /\ rr_analysed' = TRUE
    /\ rr_pc' = "write_latest"
    /\ UNCHANGED <<rr_root, rr_config, rr_args, rr_tree, rr_visited, rr_discovered,
                   rr_written, rr_fault, rr_result>>

\* lines 399-402 and 424-428: the latest artifact is written
WriteLatest ==
    /\ rr_pc = "write_latest"
    /\ Tick
    /\ \/ /\ rr_written' = rr_written \cup {"latest"}
          /\ IF rr_args.session_id # {}
             THEN rr_pc' = "write_session" /\ UNCHANGED <<rr_result, rr_fault>>
             ELSE Finish(Returned(CHOOSE a \in rr_artifact : TRUE, {"latest"}, {}),
                         NoFault)
       \/ \E exc \in {"PermissionError", "TimeoutError"} :
              /\ Finish(WriteExcept(exc, rr_args.focus_files, rr_elapsed',
                                    rr_args.timeout_ms),
                        [at |-> "write", exc |-> exc])
              /\ UNCHANGED rr_written
    /\ UNCHANGED <<rr_root, rr_config, rr_args, rr_tree, rr_networkx, rr_visited,
                   rr_discovered,
                   rr_analysed, rr_artifact>>

\* lines 403-410 and 424-428: the session's copy is written
WriteSession ==
    /\ rr_pc = "write_session"
    /\ Tick
    /\ \/ /\ rr_written' = rr_written \cup {"session"}
          /\ Finish(Returned(CHOOSE a \in rr_artifact : TRUE, {"latest"}, {"session"}),
                    NoFault)
       \/ \E exc \in {"PermissionError", "TimeoutError"} :
              /\ Finish(WriteExcept(exc, rr_args.focus_files, rr_elapsed',
                                    rr_args.timeout_ms),
                        [at |-> "write", exc |-> exc])
              /\ UNCHANGED rr_written
    /\ UNCHANGED <<rr_root, rr_config, rr_args, rr_tree, rr_networkx, rr_visited,
                   rr_discovered,
                   rr_analysed, rr_artifact>>

RunIdle ==
    /\ rr_root = "missing"
    /\ rr_config = [prefer_ast_graph |-> FALSE, max_ranked_files |-> 0,
                    max_text_bytes |-> 0, session_start_timeout_ms |-> 0]
    /\ rr_args = [timeout_ms |-> {}, session_id |-> {}, focus_files |-> <<>>,
                  max_files |-> {}, max_text_bytes |-> {}]
    /\ rr_tree = <<>>
    /\ rr_pc = "idle"
    /\ rr_elapsed = 0
    /\ rr_visited = 0
    /\ rr_discovered = <<>>
    /\ rr_analysed = FALSE
    /\ rr_artifact = {}
    /\ rr_written = {}
    /\ rr_fault = NoFault
    /\ rr_result = {}
    /\ rr_networkx = {}

---------------------------------------------------------------------------
(* File discovery and scope selection  (repomap.py 431-490, 997-1037) *)

\* DEFAULT_IGNORED_DIRS (repomap.py 17-34)
DEFAULT_IGNORED_DIRS ==
    { <<46, 99, 111, 114, 116, 101, 120>>,  \* ".cortex"
      <<46, 103, 105, 116>>,  \* ".git"
      <<46, 104, 103>>,  \* ".hg"
      <<46, 109, 121, 112, 121, 95, 99, 97, 99, 104, 101>>,  \* ".mypy_cache"
      <<46, 110, 101, 120, 116>>,  \* ".next"
      <<46, 112, 121, 116, 101, 115, 116, 95, 99, 97, 99, 104, 101>>,  \* ".pytest_cache"
      <<46, 114, 117, 102, 102, 95, 99, 97, 99, 104, 101>>,  \* ".ruff_cache"
      <<46, 115, 118, 110>>,  \* ".svn"
      <<46, 116, 111, 120>>,  \* ".tox"
      <<46, 118, 101, 110, 118>>,  \* ".venv"
      <<95, 95, 112, 121, 99, 97, 99, 104, 101, 95, 95>>,  \* "__pycache__"
      <<98, 117, 105, 108, 100>>,  \* "build"
      <<99, 111, 118, 101, 114, 97, 103, 101>>,  \* "coverage"
      <<100, 105, 115, 116>>,  \* "dist"
      <<110, 111, 100, 101, 95, 109, 111, 100, 117, 108, 101, 115>>,  \* "node_modules"
      <<118, 101, 110, 118>> }  \* "venv"

\* _BINARY_SUFFIXES (repomap.py 35-71)
_BINARY_SUFFIXES ==
    { <<46, 55, 122>>,  \* ".7z"
      <<46, 97, 118, 105>>,  \* ".avi"
      <<46, 98, 105, 110>>,  \* ".bin"
      <<46, 98, 109, 112>>,  \* ".bmp"
      <<46, 98, 122, 50>>,  \* ".bz2"
      <<46, 100, 98>>,  \* ".db"
      <<46, 100, 108, 108>>,  \* ".dll"
      <<46, 100, 121, 108, 105, 98>>,  \* ".dylib"
      <<46, 101, 120, 101>>,  \* ".exe"
      <<46, 103, 105, 102>>,  \* ".gif"
      <<46, 103, 122>>,  \* ".gz"
      <<46, 105, 99, 111>>,  \* ".ico"
      <<46, 106, 97, 114>>,  \* ".jar"
      <<46, 106, 112, 101, 103>>,  \* ".jpeg"
      <<46, 106, 112, 103>>,  \* ".jpg"
      <<46, 109, 111, 118>>,  \* ".mov"
      <<46, 109, 112, 51>>,  \* ".mp3"
      <<46, 109, 112, 52>>,  \* ".mp4"
      <<46, 111, 116, 102>>,  \* ".otf"
      <<46, 112, 100, 102>>,  \* ".pdf"
      <<46, 112, 110, 103>>,  \* ".png"
      <<46, 112, 121, 99>>,  \* ".pyc"
      <<46, 112, 121, 111>>,  \* ".pyo"
      <<46, 115, 111>>,  \* ".so"
      <<46, 115, 113, 108, 105, 116, 101>>,  \* ".sqlite"
      <<46, 116, 97, 114>>,  \* ".tar"
      <<46, 116, 103, 122>>,  \* ".tgz"
      <<46, 116, 116, 102>>,  \* ".ttf"
      <<46, 119, 97, 114>>,  \* ".war"
      <<46, 119, 97, 118>>,  \* ".wav"
      <<46, 119, 101, 98, 112>>,  \* ".webp"
      <<46, 119, 111, 102, 102>>,  \* ".woff"
      <<46, 119, 111, 102, 102, 50>>,  \* ".woff2"
      <<46, 120, 122>>,  \* ".xz"
      <<46, 122, 105, 112>> }  \* ".zip"

\* _FALLBACK_SCOPE_CANDIDATES (repomap.py 126)
_FALLBACK_SCOPE_CANDIDATES ==
    << <<99, 111, 114, 116, 101, 120>>,  \* "cortex"
       <<115, 114, 99>>,  \* "src"
       <<108, 105, 98>>,  \* "lib"
       <<97, 112, 112>>,  \* "app"
       <<112, 97, 99, 107, 97, 103, 101, 115>>,  \* "packages"
       <<116, 101, 115, 116, 115>> >>  \* "tests"

\* MAX_DISCOVER_FILE_BYTES (repomap.py 15)
MAX_DISCOVER_FILE_BYTES == 512000

\* A file on disk is [path, size, has_null]: its path relative to the root, its
\* size in bytes, and whether its first READ_SAMPLE_BYTES bytes hold a null
\* byte.  A tree is [files, sibling]: the files under the root (a directory
\* exists when a file lies under it), and whether the directory beside the
\* root that an escaping scope entry names exists.  There are no symbolic
\* links, and scope entries are relative paths.

\* _ignored
_ignored(rel_path, ignored_dirs) ==
    IF rel_path = <<>> THEN TRUE
    ELSE LET parts == SelectSeq(SplitOn(SlashNormalize(rel_path), 47), LAMBDA part : part # <<>>)
             filename == parts[Len(parts)]
         IN  \/ \E i \in 1..(Len(parts) - 1) : parts[i] \in ignored_dirs
             \/ /\ StartsWith(filename, <<46>>)
                /\ filename \notin {<<46, 101, 110, 118>>, <<46, 103, 105, 116, 105, 103, 110, 111, 114, 101>>}
             \/ EndsWith(filename, <<46, 109, 105, 110, 46, 106, 115>>)
             \/ EndsWith(filename, <<46, 109, 105, 110, 46, 99, 115, 115>>)
             \/ EndsWith(filename, <<46, 109, 97, 112>>)

\* _is_text_candidate, of a file that exists
_is_text_candidate(file) ==
    /\ ~(file.size > MAX_DISCOVER_FILE_BYTES)
    /\ Lower(PathSuffix(file.path)) \notin _BINARY_SUFFIXES
    /\ ~file.has_null

\* Path.resolve() of root / entry, as segments below the root: ".." climbs,
\* and a result that starts with ".." lies outside the root
RECURSIVE ResolveParts(_, _)
ResolveParts(segs, acc) ==
    IF segs = <<>> THEN acc
    ELSE IF Head(segs) # <<46, 46>> THEN ResolveParts(Tail(segs), Append(acc, Head(segs)))
    ELSE IF acc = <<>> \/ acc[Len(acc)] = <<46, 46>> THEN ResolveParts(Tail(segs), Append(acc, <<46, 46>>))
    ELSE ResolveParts(Tail(segs), SubSeq(acc, 1, Len(acc) - 1))

\* target.relative_to(root) succeeds
UnderRoot(parts) == parts = <<>> \/ parts[1] # <<46, 46>>

\* whether dir is parts, or an ancestor of it
IsPrefix(dir, parts) == Len(dir) <= Len(parts) /\ SubSeq(parts, 1, Len(dir)) = dir

\* Path.exists() of root / entry
PathExists(tree, entry) ==
    LET parts == ResolveParts(PathParts(entry), <<>>)
    IN  IF UnderRoot(parts)
        THEN parts = <<>> \/ \E f \in tree.files : IsPrefix(parts, PathParts(f.path))
        ELSE tree.sibling

\* os.walk(target) with the pruning of dirnames: the files below target that
\* the walk reaches.  A directory is dropped from dirnames, and nothing below
\* it is visited, when _ignored holds of the directory's own relative path.
Walked(files, target, ignored_names) ==
    { f \in files :
        LET parts == PathParts(f.path)
        IN  /\ Len(parts) > Len(target)
            /\ IsPrefix(target, parts)
            /\ \A k \in (Len(target) + 1)..(Len(parts) - 1) :
                   ~_ignored(JoinSlash(SubSeq(parts, 1, k)), ignored_names) }

\* sorted(list) of str: duplicates are kept
RECURSIVE SortedList(_)
SortedList(seq) ==
    IF seq = <<>> THEN <<>>
    ELSE LET i == CHOOSE k \in 1..Len(seq) :
                      \A j \in 1..Len(seq) : seq[j] = seq[k] \/ StrLess(seq[k], seq[j])
         IN  <<seq[i]>> \o SortedList(SubSeq(seq, 1, i - 1) \o SubSeq(seq, i + 1, Len(seq)))

\* A plausible slip: the seen set is not consulted.
DiscoverEntryWithoutSeen(tree, scope_entry, ignored_names, discovered) ==
    LET target == ResolveParts(PathParts(scope_entry), <<>>)
        is_file == { f \in tree.files : PathParts(f.path) = target }
        visited == IF ~UnderRoot(target) THEN {}
                   ELSE IF is_file # {} THEN is_file
                   ELSE Walked(tree.files, target, ignored_names)
        found == { f.path : f \in { g \in visited :
                      ~_ignored(g.path, ignored_names) /\ _is_text_candidate(g) } }
    IN  discovered \o SortedStrings(found)

\* one pass of `for scope_entry in scope`: the entry is skipped when it
\* resolves outside the root; a file is taken by itself, a directory is
\* walked; a path is appended when it is not in seen, not ignored and a text
\* candidate.  (seen holds the paths of discovered; the walk's order is the
\* file system's, and the list is sorted at the end.)
DiscoverEntry(tree, scope_entry, ignored_names, discovered) ==
    LET target == ResolveParts(PathParts(scope_entry), <<>>)
        is_file == { f \in tree.files : PathParts(f.path) = target }
        visited == IF ~UnderRoot(target) THEN {}
                   ELSE IF is_file # {} THEN is_file
                   ELSE Walked(tree.files, target, ignored_names)
        seen == ToSet(discovered)
        found == { f.path : f \in { g \in visited :
                      /\ g.path \notin seen
                      /\ ~_ignored(g.path, ignored_names)
                      /\ _is_text_candidate(g) } }
    IN  discovered \o SortedStrings(found)

\* the loop over the scope entries
RECURSIVE DiscoverScope(_, _, _, _)
DiscoverScope(tree, entries, ignored_names, discovered) ==
    IF entries = <<>> THEN discovered
    ELSE DiscoverScope(tree, Tail(entries), ignored_names,
                       DiscoverEntry(tree, Head(entries), ignored_names, discovered))

\* _discover_files, with a timeout_check that never fires
_discover_files(tree, scope, ignored_dirs) ==
    LET ignored_names == DEFAULT_IGNORED_DIRS \cup ToSet(ignored_dirs)
        entries == IF scope = <<>> THEN <<<<115, 114, 99>>>> ELSE scope
    IN  SortedList(DiscoverScope(tree, entries, ignored_names, <<>>))

\* str.strip() is empty
IsBlank(s) == \A i \in 1..Len(s) : s[i] \in {9, 10, 11, 12, 13, 32}

\* _scope_targets_exist
_scope_targets_exist(tree, scope) == \E i \in 1..Len(scope) : PathExists(tree, scope[i])

\* _select_scope
_select_scope(tree, requested_scope, user_scope_supplied) ==
    LET kept == SelectSeq(requested_scope, LAMBDA v : ~IsBlank(v))
        normalized == IF kept = <<>> THEN <<<<115, 114, 99>>>> ELSE kept
        fallback == SelectSeq(_FALLBACK_SCOPE_CANDIDATES, LAMBDA name : PathExists(tree, name))
    IN  IF user_scope_supplied \/ _scope_targets_exist(tree, normalized) THEN normalized
        ELSE IF fallback = <<>> THEN <<<<46>>>> ELSE fallback

\* requested_scope in run_repomap: scope or config_scope or ["src"]
RequestedScope(scope, config_scope) ==
    IF scope # {} /\ (CHOOSE s \in scope : TRUE) # <<>> THEN CHOOSE s \in scope : TRUE
    ELSE IF config_scope # <<>> THEN config_scope
    ELSE <<<<115, 114, 99>>>>

---------------------------------------------------------------------------
(* Scope selection and discovery, as run_repomap calls them  (repomap.py 280-285, 315-322) *)

\* the largest number of files on disk
MaxTreeFiles == 2

\* the files a tree is drawn from
DiskFilePool ==
    { [path |-> <<115, 114, 99, 47, 97, 112, 112, 46, 112, 121>>, size |-> 100, has_null |-> FALSE],  \* src/app.py
      [path |-> <<115, 114, 99, 47, 46, 115, 116, 111, 114, 121, 98, 111, 111, 107, 47, 109, 97, 105, 110, 46, 106, 115>>, size |-> 100, has_null |-> FALSE],  \* src/.storybook/main.js
      [path |-> <<115, 114, 99, 47, 110, 111, 100, 101, 95, 109, 111, 100, 117, 108, 101, 115, 47, 120, 46, 106, 115>>, size |-> 100, has_null |-> FALSE],  \* src/node_modules/x.js
      [path |-> <<110, 111, 100, 101, 95, 109, 111, 100, 117, 108, 101, 115, 47, 112, 107, 103, 47, 105, 110, 100, 101, 120, 46, 106, 115>>, size |-> 100, has_null |-> FALSE],  \* node_modules/pkg/index.js
      [path |-> <<115, 114, 99, 47, 46, 101, 110, 118>>, size |-> 100, has_null |-> FALSE],  \* src/.env
      [path |-> <<115, 114, 99, 47, 46, 104, 105, 100, 100, 101, 110, 46, 112, 121>>, size |-> 100, has_null |-> FALSE],  \* src/.hidden.py
      [path |-> <<115, 114, 99, 47, 97, 46, 109, 105, 110, 46, 106, 115>>, size |-> 100, has_null |-> FALSE],  \* src/a.min.js
      [path |-> <<115, 114, 99, 47, 105, 109, 103, 46, 112, 110, 103>>, size |-> 100, has_null |-> FALSE],  \* src/img.png
      [path |-> <<115, 114, 99, 47, 110, 117, 108, 46, 112, 121>>, size |-> 100, has_null |-> TRUE],  \* src/nul.py
      [path |-> <<115, 114, 99, 47, 98, 105, 103, 46, 112, 121>>, size |-> 512001, has_null |-> FALSE],  \* src/big.py
      [path |-> <<108, 105, 98, 47, 117, 116, 105, 108, 46, 112, 121>>, size |-> 100, has_null |-> FALSE],  \* lib/util.py
      [path |-> <<116, 101, 115, 116, 115, 47, 116, 46, 112, 121>>, size |-> 100, has_null |-> FALSE] }  \* tests/t.py

\* the scope argument: None, or a list
ScopeArgs ==
    { {},  \* None
      {<<<<115, 114, 99>>>>},  \* ['src']
      {<<<<110, 111, 100, 101, 95, 109, 111, 100, 117, 108, 101, 115>>>>},  \* ['node_modules']
      {<<<<46>>>>},  \* ['.']
      {<<<<115, 114, 99, 47, 46, 115, 116, 111, 114, 121, 98, 111, 111, 107>>>>},  \* ['src/.storybook']
      {<<<<46, 46, 47, 108, 105, 98>>>>},  \* ['../lib']
      {<<<<108, 105, 98>>>>},  \* ['lib']
      {<<<<115, 114, 99>>, <<115, 114, 99, 47, 97, 112, 112, 46, 112, 121>>, <<46>>, <<46, 46, 47, 108, 105, 98>>>>},  \* ['src', 'src/app.py', '.', '../lib']
      {<<<<108, 105, 98>>, <<115, 114, 99>>, <<108, 105, 98>>>>},  \* ['lib', 'src', 'lib']
      {<<>>} }  \* []

\* repomap_config.watch_paths
WatchPathChoices ==
    { <<<<115, 114, 99>>>>,  \* ['src']
      <<<<46, 46, 47, 108, 105, 98>>>>,  \* ['../lib']
      <<<<108, 105, 98>>, <<100, 111, 99, 115>>>> }  \* ['lib', 'docs']

\* repomap_config.ignored_dirs
IgnoredDirChoices == { <<>>, <<<<108, 105, 98>>>> }

DiscoverInit ==
    /\ \E files \in SUBSET DiskFilePool, sibling \in BOOLEAN :
           /\ Cardinality(files) <= MaxTreeFiles
           /\ ds_tree = [files |-> files, sibling |-> sibling]
    /\ ds_scope \in ScopeArgs
    /\ \E w \in WatchPathChoices, g \in IgnoredDirChoices :
           ds_config = [watch_paths |-> w, ignored_dirs |-> g]
    /\ ds_pc = "select_scope"
    /\ ds_selected = <<>>
    /\ ds_files = <<>>

\* run_repomap 280-285: requested_scope and selected_scope
SelectScope ==
    /\ ds_pc = "select_scope"
    /\ ds_selected' = _select_scope(ds_tree, RequestedScope(ds_scope, ds_config.watch_paths), ds_scope # {})
    /\ ds_pc' = "discover"
    /\ UNCHANGED <<ds_tree, ds_scope, ds_config, ds_files>>

\* run_repomap 315-322: files = _discover_files(...)
DiscoverFiles ==
    /\ ds_pc = "discover"
    /\ ds_files' = _discover_files(ds_tree, ds_selected, ds_config.ignored_dirs)
    /\ ds_pc' = "done"
    /\ UNCHANGED <<ds_tree, ds_scope, ds_config, ds_selected>>

DiscoverIdle ==
    /\ ds_tree = [files |-> {}, sibling |-> FALSE]
    /\ ds_scope = {}
    /\ ds_config = [watch_paths |-> <<>>, ignored_dirs |-> <<>>]
    /\ ds_pc = "idle"
    /\ ds_selected = <<>>
    /\ ds_files = <<>>

---------------------------------------------------------------------------
(* SpecPagerank: _pagerank_scores_with_backend applied to bounded graphs *)

\* the largest number of paths
MaxPaths == 7

\* the paths, in the order they are handed over: the first three are the
\* graph of test_pagerank_scores_prefers_dependency_hub
PathPool ==
    << "src/util.ts", "src/main.ts", "src/feature.ts", "src/core.ts", "src/cli.ts",
       "src/a.ts", "src/b.ts", "src/c.ts" >>

\* the import edges a graph is drawn from
EdgePool ==
    { <<"src/main.ts", "src/util.ts">>, <<"src/feature.ts", "src/util.ts">>,
      <<"src/cli.ts", "src/core.ts">>,
      <<"src/main.ts", "src/a.ts">>, <<"src/main.ts", "src/b.ts">>,
      <<"src/feature.ts", "src/a.ts">>, <<"src/feature.ts", "src/b.ts">>,
      <<"src/util.ts", "src/main.ts">>,
      <<"src/a.ts", "src/main.ts">>, <<"src/b.ts", "src/main.ts">> }

PagerankInit ==
    /\ \E n \in 0..Min(MaxPaths, Len(PathPool)) : pr_paths = SubSeq(PathPool, 1, n)
    /\ pr_edges \in SUBSET EdgePool
    /\ pr_networkx \in NetworkxOutcomes(pr_paths)
    /\ pr_result = [scores |-> <<>>, backend |-> "none"]
    /\ pr_done = FALSE

\* the call
PagerankScores ==
    /\ ~pr_done
    /\ pr_result' = _pagerank_scores_with_backend(pr_paths, pr_edges, pr_networkx)
    /\ pr_done' = TRUE
    /\ UNCHANGED <<pr_paths, pr_edges, pr_networkx>>

PagerankIdle ==
    /\ pr_paths = <<>>
    /\ pr_edges = {}
    /\ pr_networkx = <<>>
    /\ pr_result = [scores |-> <<>>, backend |-> "none"]
    /\ pr_done = TRUE

---------------------------------------------------------------------------
(* SQLiteStore._run_write (src/cortex/store.py): the retry loop around one *)
(* write.  An attempt is the body of the try: open the connection, call    *)
(* the operation, commit on leaving the with-block.                        *)

\* "database is locked"
MsgDatabaseIsLocked ==
    <<100, 97, 116, 97, 98, 97, 115, 101, 32, 105, 115, 32, 108, 111, 99,
       107, 101, 100>>

\* "database table is locked"
MsgDatabaseTableIsLocked ==
    <<100, 97, 116, 97, 98, 97, 115, 101, 32, 116, 97, 98, 108, 101, 32, 105,
       115, 32, 108, 111, 99, 107, 101, 100>>

\* "no such table: missing_table"
MsgNoSuchTable ==
    <<110, 111, 32, 115, 117, 99, 104, 32, 116, 97, 98, 108, 101, 58, 32,
       109, 105, 115, 115, 105, 110, 103, 95, 116, 97, 98, 108, 101>>

\* "unable to open database file"
MsgUnableToOpen ==
    <<117, 110, 97, 98, 108, 101, 32, 116, 111, 32, 111, 112, 101, 110, 32,
       100, 97, 116, 97, 98, 97, 115, 101, 32, 102, 105, 108, 101>>

\* "UNIQUE constraint failed: sessions.session_id"
MsgUniqueFailed ==
    <<85, 78, 73, 81, 85, 69, 32, 99, 111, 110, 115, 116, 114, 97, 105, 110,
       116, 32, 102, 97, 105, 108, 101, 100, 58, 32, 115, 101, 115, 115, 105,
       111, 110, 115, 46, 115, 101, 115, 115, 105, 111, 110, 95, 105, 100>>


\* the exceptions an attempt can raise: a type and str(exc)
ExcLocked == [type |-> "OperationalError", message |-> MsgDatabaseIsLocked]

ExcTableLocked == [type |-> "OperationalError", message |-> MsgDatabaseTableIsLocked]

ExcNoSuchTable == [type |-> "OperationalError", message |-> MsgNoSuchTable]

ExcUnableToOpen == [type |-> "OperationalError", message |-> MsgUnableToOpen]

ExcIntegrity == [type |-> "IntegrityError", message |-> MsgUniqueFailed]

\* how one attempt can end: the stage that raised, and the exception ({} when
\* the with-block was left without one).  sqlite3.connect raises before the
\* operation is called; the operation raises; conn.commit() raises after the
\* operation has returned.
AttemptOutcomes ==
    { [stage |-> "exit", exc |-> {}],
      [stage |-> "connect", exc |-> {ExcUnableToOpen}],
      [stage |-> "operation", exc |-> {ExcLocked}],
      [stage |-> "operation", exc |-> {ExcTableLocked}],
      [stage |-> "operation", exc |-> {ExcNoSuchTable}],
      [stage |-> "operation", exc |-> {ExcIntegrity}],
      [stage |-> "commit", exc |-> {ExcLocked}] }

\* any(msg in str(exc).lower() for msg in (...))
_is_lock_error(exc) ==
    \E msg \in {MsgDatabaseIsLocked, MsgDatabaseTableIsLocked} :
        Contains(Lower(exc.message), msg)

attempts_one_more(lock_retry_attempts) == Max(0, lock_retry_attempts) + 2

\* attempts = max(0, int(self.lock_retry_attempts)) + 1
attempts(lock_retry_attempts) == Max(0, lock_retry_attempts) + 1

\* backoff = max(0, int(self.lock_retry_backoff_ms)) / 1000.0, in milliseconds
backoff(lock_retry_backoff_ms) == Max(0, lock_retry_backoff_ms)

\* the except clause: is the exception raised out of _run_write?  Only
\* sqlite3.OperationalError is caught at all.
Reraised(exc, attempt, lock_retry_attempts) ==
    \/ exc.type # "OperationalError"
    \/ ~_is_lock_error(exc)
    \/ attempt >= attempts(lock_retry_attempts) - 1

RECURSIVE Pow2(_)
Pow2(n) == IF n = 0 THEN 1 ELSE 2 * Pow2(n - 1)

MaxLockRetryAttempts == 2

\* the store's fields: nothing validates them, the default is 3 / 25
LockRetryAttemptChoices == -1..MaxLockRetryAttempts

LockRetryBackoffChoices == {-5, 0, 25}

RunWriteInit ==
    /\ rw_lock_retry_attempts \in LockRetryAttemptChoices
    /\ rw_lock_retry_backoff_ms \in LockRetryBackoffChoices
    /\ rw_attempt = 0
    /\ rw_invocations = 0
    /\ rw_outcomes = <<>>
    /\ rw_slept_ms = <<>>
    /\ rw_raised = {}
    /\ rw_pc = "loop"

\* one pass of `for attempt in range(attempts)`
RunWriteAttempt ==
    /\ rw_pc = "loop"
    /\ rw_attempt < attempts(rw_lock_retry_attempts)
    /\ \E outcome \in AttemptOutcomes :
        /\ rw_outcomes' = Append(rw_outcomes, outcome)
        /\ rw_invocations' = rw_invocations + (IF outcome.stage = "connect" THEN 0 ELSE 1)
        /\ IF outcome.exc = {}
           THEN /\ rw_pc' = "returned"
                /\ UNCHANGED <<rw_attempt, rw_slept_ms, rw_raised>>
           ELSE LET exc == CHOOSE e \in outcome.exc : TRUE
                IN  IF Reraised(exc, rw_attempt, rw_lock_retry_attempts)
                    THEN /\ rw_pc' = "raised"
                         /\ rw_raised' = {exc}
                         /\ UNCHANGED <<rw_attempt, rw_slept_ms>>
                    ELSE /\ rw_slept_ms' =
                                IF backoff(rw_lock_retry_backoff_ms) > 0
                                THEN Append(rw_slept_ms,
                                            backoff(rw_lock_retry_backoff_ms) * Pow2(rw_attempt))
                                ELSE rw_slept_ms
                         /\ rw_attempt' = rw_attempt + 1
                         /\ UNCHANGED <<rw_pc, rw_raised>>
    /\ UNCHANGED <<rw_lock_retry_attempts, rw_lock_retry_backoff_ms>>

RunWriteIdle ==
    /\ rw_lock_retry_attempts = 0
    /\ rw_lock_retry_backoff_ms = 0
    /\ rw_attempt = 0
    /\ rw_invocations = 0
    /\ rw_outcomes = <<>>
    /\ rw_slept_ms = <<>>
    /\ rw_raised = {}
    /\ rw_pc = "idle"

---------------------------------------------------------------------------
(* SpecTokenize: Graveyard._tokenize applied to bounded texts *)

\* words of a text at most
MaxWords == 2

\* raw words at the limits of the length test and of each suffix rule
WordPool ==
    { <<97, 98>>,  \* ab
      <<97, 98, 99>>,  \* abc
      <<46, 46, 97, 98, 46, 46>>,  \* ..ab..
      <<95, 97, 98, 45>>,  \* _ab-
      <<97, 98, 105, 101, 115>>,  \* abies
      <<116, 105, 101, 115>>,  \* ties
      <<97, 99, 116, 105, 110, 103>>,  \* acting
      <<98, 114, 105, 110, 103>>,  \* bring
      <<97, 98, 98, 101, 100>>,  \* abbed
      <<117, 115, 101, 100>>,  \* used
      <<97, 98, 99, 115>>,  \* abcs
      <<97, 115, 115>>,  \* ass
      <<82, 101, 100, 105, 115>>,  \* Redis
      <<101, 114, 114, 111, 114, 115>>,  \* errors
      <<105, 115>>,  \* is
      <<73, 68, 115>>,  \* IDs
      <<99, 97, 99, 104, 105, 110, 103>>,  \* caching
      <<97, 46, 98>> }  \* a.b

\* the words, each followed by a blank
RECURSIVE JoinWords(_)
JoinWords(words) ==
    IF words = <<>> THEN <<>> ELSE Head(words) \o <<32>> \o JoinWords(Tail(words))

TokenizeInit ==
    /\ \E words \in SeqsUpTo(WordPool, MaxWords) : tk_text = JoinWords(words)
    /\ tk_tokens = <<>>
    /\ tk_done = FALSE

\* the call
Tokenize ==
    /\ ~tk_done
    /\ tk_tokens' = _tokenize(tk_text)
    /\ tk_done' = TRUE
    /\ UNCHANGED tk_text

TokenizeIdle ==
    /\ tk_text = <<>>
    /\ tk_tokens = <<>>
    /\ tk_done = TRUE

---------------------------------------------------------------------------
(* The Stop hook  (stop_policy.py 3-47, invariants.py 83-85, core.py      *)
(* 201-265).  Python None is {}, a value v is {v}.                         *)

\* A plausible slip: the report recommends a revert in every mode.
InvariantReportInAnyMode(hooks, suite) ==
    [ok |-> suite # "fail",
     recommend_revert |-> suite = "fail" /\ hooks.recommend_revert_on_invariant_failure]

\* InvariantRunner.run: report.ok is False when a case failed, and
\* recommend_revert is set in strict mode only (lines 83-85)
InvariantReport(hooks, suite) ==
    [ok |-> suite # "fail",
     recommend_revert |-> IF hooks.mode = "strict" /\ suite = "fail"
                          THEN hooks.recommend_revert_on_invariant_failure
                          ELSE FALSE]

\* compute_stop_outcome: the session status and recommend_revert
compute_stop_outcome(mode, fail_on_missing_challenge_coverage, fail_on_requirement_audit_gap, require_requirement_audit, challenge_ok, invariant_ok, invariant_recommend_revert, missing_challenge_coverage, requirement_audit_gap, requirement_audit_missing, structured_stop_violation) ==
    LET strict_mode == mode = "strict"
        strict_challenge_gate == mode = "strict" /\ fail_on_missing_challenge_coverage
        challenge_gate_violation ==
            strict_challenge_gate /\ (missing_challenge_coverage \/ challenge_ok = {FALSE})
        requirement_audit_violation ==
            /\ strict_mode
            /\ fail_on_requirement_audit_gap
            /\ (requirement_audit_gap
                    \/ (requirement_audit_missing /\ require_requirement_audit))
        session_status ==
            IF invariant_ok = {FALSE} THEN "failed_invariants"
            ELSE IF structured_stop_violation THEN "failed_stop_contract"
            ELSE IF requirement_audit_violation THEN "failed_requirements"
            ELSE IF challenge_ok = {FALSE} THEN "failed_challenges"
            ELSE IF missing_challenge_coverage /\ strict_challenge_gate
                 THEN "missing_challenge_coverage"
            ELSE "completed"
        recommend_revert ==
            \/ invariant_recommend_revert
            \/ challenge_gate_violation
            \/ requirement_audit_violation
            \/ (strict_mode /\ structured_stop_violation)
    IN  <<session_status, recommend_revert>>

\* hooks.mode: the two documented values and one that is neither
HookModes == {"strict", "advisory", "Strict"}

HooksConfigs ==
    [mode : HookModes,
     fail_on_missing_challenge_coverage : BOOLEAN,
     recommend_revert_on_invariant_failure : BOOLEAN,
     require_requirement_audit : BOOLEAN,
     fail_on_requirement_audit_gap : BOOLEAN]

\* what on_stop has found when it computes the outcome.  Coverage is
\* reported missing only when no challenge report was made (core.py 160-181).
StopChecks ==
    { c \in [challenge_ok : {{}, {TRUE}, {FALSE}},
             missing_challenge_coverage : BOOLEAN,
             requirement_audit_gap : BOOLEAN,
             requirement_audit_missing : BOOLEAN,
             structured_stop_violation : BOOLEAN] :
        c.missing_challenge_coverage => c.challenge_ok = {} }

StopInit ==
    /\ st_hooks \in HooksConfigs
    /\ st_suite \in {"skipped", "pass", "fail"}
    /\ st_checks \in StopChecks
    /\ st_invariant_report = {}
    /\ st_response = {}
    /\ st_pc = "invariants"

\* core.py 201-206: the invariant suite is run, or not
RunInvariantsOnStop ==
    /\ st_pc = "invariants"
    /\ st_invariant_report' = IF st_suite = "skipped" THEN {}
                              ELSE {InvariantReport(st_hooks, st_suite)}
    /\ st_pc' = "outcome"
    /\ UNCHANGED <<st_hooks, st_suite, st_checks, st_response>>

\* core.py 216-265: the outcome is computed, the session is closed with the
\* status, and the response is returned
StopOutcome ==
    /\ st_pc = "outcome"
    /\ LET invariant_ok == {r.ok : r \in st_invariant_report}
           outcome == compute_stop_outcome(
                          st_hooks.mode,
                          st_hooks.fail_on_missing_challenge_coverage,
                          st_hooks.fail_on_requirement_audit_gap,
                          st_hooks.require_requirement_audit,
                          st_checks.challenge_ok,
                          invariant_ok,
                          \E r \in st_invariant_report : r.recommend_revert,
                          st_checks.missing_challenge_coverage,
                          st_checks.requirement_audit_gap,
                          st_checks.requirement_audit_missing,
                          st_checks.structured_stop_violation)
       IN  st_response' = {[session_status |-> outcome[1],
                            recommend_revert |-> outcome[2],
                            proceed |-> ~outcome[2]]}
    /\ st_pc' = "done"
    /\ UNCHANGED <<st_hooks, st_suite, st_checks, st_invariant_report>>

StopIdle ==
    /\ st_hooks = [mode |-> "advisory", fail_on_missing_challenge_coverage |-> FALSE,
                   recommend_revert_on_invariant_failure |-> TRUE,
                   require_requirement_audit |-> FALSE,
                   fail_on_requirement_audit_gap |-> FALSE]
    /\ st_suite = "skipped"
    /\ st_checks = [challenge_ok |-> {}, missing_challenge_coverage |-> FALSE,
                    requirement_audit_gap |-> FALSE, requirement_audit_missing |-> FALSE,
                    structured_stop_violation |-> FALSE]
    /\ st_invariant_report = {}
    /\ st_response = {}
    /\ st_pc = "idle"

---------------------------------------------------------------------------
(* The dependency edges  (repomap.py 154-165, 659-751) *)

_RELATIVE_IMPORT_SUFFIX_CANDIDATES ==
    << <<46, 112, 121>>,
       <<46, 116, 115>>,
       <<46, 116, 115, 120>>,
       <<46, 106, 115>>,
       <<46, 106, 115, 120>>,
       <<46, 109, 106, 115>>,
       <<46, 99, 106, 115>>,
       <<46, 97, 115, 116, 114, 111>>,
       <<46, 118, 117, 101>>,
       <<46, 115, 118, 101, 108, 116, 101>> >>

\* "__init__.py", ".py", "/index"
StrInitPy == <<95, 95, 105, 110, 105, 116, 95, 95, 46, 112, 121>>

StrDotPy == <<46, 112, 121>>

StrSlashIndex == <<47, 105, 110, 100, 101, 120>>

\* str.strip(): the white space at both ends removed
WhiteSpace == {9, 10, 11, 12, 13, 32}

StripSpace(s) ==
    LET kept == { i \in 1..Len(s) : s[i] \notin WhiteSpace }
    IN  IF kept = {} THEN <<>>
        ELSE SubSeq(s, CHOOSE i \in kept : \A j \in kept : i <= j,
                       CHOOSE i \in kept : \A j \in kept : j <= i)

\* s.split(c, 1)[0]: the part before the first c
BeforeChar(s, c) ==
    IF \E i \in 1..Len(s) : s[i] = c
    THEN SubSeq(s, 1, (CHOOSE i \in 1..Len(s) : s[i] = c /\ \A j \in 1..(i - 1) : s[j] # c) - 1)
    ELSE s

\* len(s) - len(s.lstrip(c)): the number of leading c
LeadingCount(s, c) == Cardinality({ i \in 1..Len(s) : \A j \in 1..i : s[j] = c })

\* ".".join(parts)
RECURSIVE JoinDot(_)
JoinDot(parts) ==
    IF parts = <<>> THEN <<>>
    ELSE IF Len(parts) = 1 THEN parts[1]
    ELSE parts[1] \o <<46>> \o JoinDot(Tail(parts))

\* _normalize_rel, piece by piece: {} once ".." climbs above the start
RECURSIVE NormalizePieces(_, _)
NormalizePieces(pieces, parts) ==
    IF pieces = <<>> THEN {parts}
    ELSE LET piece == Head(pieces)
         IN  IF piece = <<>> \/ piece = <<46>> THEN NormalizePieces(Tail(pieces), parts)
             ELSE IF piece = <<46, 46>>
                  THEN IF parts = <<>> THEN {}
                       ELSE NormalizePieces(Tail(pieces), SubSeq(parts, 1, Len(parts) - 1))
             ELSE NormalizePieces(Tail(pieces), Append(parts, piece))

\* _normalize_rel
_normalize_rel(path) ==
    LET normalized == NormalizePieces(SplitOn(SlashNormalize(path), 47), <<>>)
    IN  IF normalized = {} THEN <<>> ELSE JoinSlash(CHOOSE parts \in normalized : TRUE)

\* _resolve_relative_import: {} for None
_resolve_relative_import(source_path, target, available_paths) ==
    IF ~(StartsWith(target, <<46>>) \/ StartsWith(target, <<47>>)) THEN {}
    ELSE LET parent == SubSeq(PathParts(source_path), 1, Len(PathParts(source_path)) - 1)
             raw == IF StartsWith(target, <<46>>)
                    THEN JoinSlash(Append(parent, target))
                    ELSE SubSeq(target, LeadingCount(target, 47) + 1, Len(target))
             base == _normalize_rel(raw)
             suffixes == _RELATIVE_IMPORT_SUFFIX_CANDIDATES
             candidates == [i \in 1..(2 * Len(suffixes)) |->
                               IF i % 2 = 1 THEN base \o suffixes[(i + 1) \div 2]
                               ELSE base \o StrSlashIndex \o suffixes[i \div 2]]
             hits == { i \in 1..Len(candidates) :
                         /\ _normalize_rel(candidates[i]) # <<>>
                         /\ _normalize_rel(candidates[i]) \in available_paths }
         IN  IF base = <<>> THEN {}
             ELSE IF base \in available_paths THEN {base}
             ELSE IF PathSuffix(base) # <<>> THEN {}
             ELSE IF hits = {} THEN {}
             ELSE {_normalize_rel(candidates[CHOOSE i \in hits : \A j \in hits : i <= j])}

\* the module name _build_python_module_index gives a path
ModuleName(rel) ==
    LET parts == PathParts(rel)
    IN  IF PathName(rel) = StrInitPy THEN JoinDot(SubSeq(parts, 1, Len(parts) - 1))
        ELSE JoinDot(Append(SubSeq(parts, 1, Len(parts) - 1), PathStem(rel)))

\* _build_python_module_index over the paths in the order the set yields them:
\* the <<module name, path>> pairs, the first path of a name kept
RECURSIVE _build_python_module_index(_, _)
_build_python_module_index(order, index) ==
    IF order = <<>> THEN index
    ELSE LET rel == Head(order)
             module_name == ModuleName(rel)
         IN  IF Lower(PathSuffix(rel)) # StrDotPy
             THEN _build_python_module_index(Tail(order), index)
             ELSE IF module_name # <<>> /\ ~\E pair \in index : pair[1] = module_name
                  THEN _build_python_module_index(Tail(order), index \cup {<<module_name, rel>>})
             ELSE _build_python_module_index(Tail(order), index)

\* index.get(module_name): {} for None
IndexGet(index, module_name) == { pair[2] : pair \in { p \in index : p[1] = module_name } }

\* _resolve_python_import: {} for None
_resolve_python_import(source_path, target, index) ==
    IF target = <<>> THEN {}
    ELSE IF ~StartsWith(target, <<46>>) THEN IndexGet(index, target)
    ELSE LET level == LeadingCount(target, 46)
             module_tail == SubSeq(target, level + 1, Len(target))
             package_parts == SubSeq(PathParts(source_path), 1, Len(PathParts(source_path)) - 1)
             trim == Max(0, level - 1)
             base_parts == SubSeq(package_parts, 1, Len(package_parts) - trim)
             tail_parts == SelectSeq(SplitOn(module_tail, 46), LAMBDA part : part # <<>>)
         IN  IF trim > Len(package_parts) THEN {}
             ELSE IF base_parts = <<>> /\ tail_parts = <<>> THEN {}
             ELSE IndexGet(index, JoinDot(base_parts \o tail_parts))

\* A plausible slip: an import that resolves to the importing file is kept.
ImportEdgeAllowingSelf(src, raw_target, python_index, available_paths) ==
    LET target == StripSpace(BeforeChar(BeforeChar(raw_target, 63), 35))
        py == IF Lower(PathSuffix(src)) = StrDotPy
              THEN _resolve_python_import(src, target, python_index) ELSE {}
        dst == IF py # {} THEN py ELSE _resolve_relative_import(src, target, available_paths)
    IN  IF target = <<>> THEN {}
        ELSE { <<src, d>> : d \in { e \in dst : e # <<>> /\ e \in available_paths } }

\* _build_dependency_edges, the body of its loops: the edges one import
\* target of one file adds
ImportEdge(src, raw_target, python_index, available_paths) ==
    LET target == StripSpace(BeforeChar(BeforeChar(raw_target, 63), 35))
        py == IF Lower(PathSuffix(src)) = StrDotPy
              THEN _resolve_python_import(src, target, python_index) ELSE {}
        dst == IF py # {} THEN py ELSE _resolve_relative_import(src, target, available_paths)
    IN  IF target = <<>> THEN {}
        ELSE { <<src, d>> : d \in { e \in dst : e # <<>> /\ e # src /\ e \in available_paths } }

\* (a, b) < (c, d) for tuples of str
EdgeLess(a, b) == StrLess(a[1], b[1]) \/ (a[1] = b[1] /\ StrLess(a[2], b[2]))

\* sorted(edges)
RECURSIVE SortedEdges(_)
SortedEdges(S) ==
    IF S = {} THEN <<>>
    ELSE LET least == CHOOSE x \in S : \A y \in S \ {x} : EdgeLess(x, y)
         IN  <<least>> \o SortedEdges(S \ {least})

\* {item.path for item in analyses}
AvailablePaths(analyses) == { analyses[i].path : i \in 1..Len(analyses) }

\* the orders in which a set can be iterated
Orders(S) ==
    { order \in [1..Cardinality(S) -> S] : \A i, j \in 1..Cardinality(S) : order[i] = order[j] => i = j }

\* _build_dependency_edges, the inner loop: the edges of one file
FileEdges(analysis, python_index, available_paths) ==
    UNION { ImportEdge(analysis.path, analysis.imports[k], python_index, available_paths) :
            k \in 1..Len(analysis.imports) }

\* _build_dependency_edges, the set available_paths iterated in the given order
_build_dependency_edges(analyses, order) ==
    LET available_paths == AvailablePaths(analyses)
        python_index == _build_python_module_index(order, {})
    IN  SortedEdges(UNION { FileEdges(analyses[i], python_index, available_paths) :
                            i \in 1..Len(analyses) })

MaxImporters == 2

\* the discovered file sets a call is drawn from
EdgeProjects ==
    { \* a.py, pkg.py, pkg/__init__.py
      { <<97, 46, 112, 121>>,
        <<112, 107, 103, 46, 112, 121>>,
        <<112, 107, 103, 47, 95, 95, 105, 110, 105, 116, 95, 95, 46, 112, 121>> },
      \* src/pkg/module.py, src/pkg/helpers.py, src/pkg/helpers/__init__.py
      { <<115, 114, 99, 47, 112, 107, 103, 47, 109, 111, 100, 117, 108, 101, 46, 112, 121>>,
        <<115, 114, 99, 47, 112, 107, 103, 47, 104, 101, 108, 112, 101, 114, 115, 46, 112, 121>>,
        <<115, 114, 99, 47, 112, 107, 103, 47, 104, 101, 108, 112, 101, 114, 115, 47, 95, 95, 105, 110, 105, 116, 95, 95, 46, 112, 121>> },
      \* src/pkg/module.py, src/pkg/helpers.py
      { <<115, 114, 99, 47, 112, 107, 103, 47, 109, 111, 100, 117, 108, 101, 46, 112, 121>>,
        <<115, 114, 99, 47, 112, 107, 103, 47, 104, 101, 108, 112, 101, 114, 115, 46, 112, 121>> },
      \* pkg/m.py, helpers.py, pkg/helpers.py
      { <<112, 107, 103, 47, 109, 46, 112, 121>>,
        <<104, 101, 108, 112, 101, 114, 115, 46, 112, 121>>,
        <<112, 107, 103, 47, 104, 101, 108, 112, 101, 114, 115, 46, 112, 121>> },
      \* m.py, ...x, helpers.py
      { <<109, 46, 112, 121>>,
        <<46, 46, 46, 120>>,
        <<104, 101, 108, 112, 101, 114, 115, 46, 112, 121>> },
      \* web/app.ts, web/util.ts, web/lib/index.ts
      { <<119, 101, 98, 47, 97, 112, 112, 46, 116, 115>>,
        <<119, 101, 98, 47, 117, 116, 105, 108, 46, 116, 115>>,
        <<119, 101, 98, 47, 108, 105, 98, 47, 105, 110, 100, 101, 120, 46, 116, 115>> },
      \* a.py, b.py, a.PY
      { <<97, 46, 112, 121>>,
        <<98, 46, 112, 121>>,
        <<97, 46, 80, 89>> } }

\* the import lists a file is drawn with
ImportLists ==
    { \* 'pkg'
      << <<112, 107, 103>> >>,
      \* '.helpers'
      << <<46, 104, 101, 108, 112, 101, 114, 115>> >>,
      \* '..helpers'
      << <<46, 46, 104, 101, 108, 112, 101, 114, 115>> >>,
      \* '...helpers'
      << <<46, 46, 46, 104, 101, 108, 112, 101, 114, 115>> >>,
      \* '...x'
      << <<46, 46, 46, 120>> >>,
      \* './util', './lib'
      << <<46, 47, 117, 116, 105, 108>>, <<46, 47, 108, 105, 98>> >>,
      \* 'a', ' b '
      << <<97>>, <<32, 98, 32>> >>,
      \* '/web/util.ts?raw#x', ''
      << <<47, 119, 101, 98, 47, 117, 116, 105, 108, 46, 116, 115, 63, 114, 97, 119, 35, 120>>, <<>> >> }

\* the analyses _analyze_files hands over: the files in sorted order, at most
\* MaxImporters of them with imports
EdgeAnalyses(project, importers, lists) ==
    LET files == SortedStrings(project)
    IN  [i \in 1..Len(files) |->
            [path |-> files[i],
             imports |-> IF files[i] \in importers THEN lists[files[i]] ELSE <<>>]]

EdgeInit ==
    /\ \E project \in EdgeProjects :
           \E importers \in { S \in SUBSET project : Cardinality(S) <= MaxImporters } :
               \E lists \in [importers -> ImportLists] :
                   ed_analyses = EdgeAnalyses(project, importers, lists)
    /\ ed_order = <<>>
    /\ ed_index = {}
    /\ ed_edges = <<>>
    /\ ed_done = FALSE

\* _build_dependency_edges(analyses)
BuildDependencyEdges ==
    /\ ~ed_done
    /\ \E order \in Orders(AvailablePaths(ed_analyses)) :
           /\ ed_order' = order
           /\ ed_index' = _build_python_module_index(order, {})
           /\ ed_edges' = _build_dependency_edges(ed_analyses, order)
    /\ ed_done' = TRUE
    /\ UNCHANGED ed_analyses

\* no call of _build_dependency_edges is under way
EdgeIdle ==
    /\ ed_analyses = <<>>
    /\ ed_order = <<>>
    /\ ed_index = {}
    /\ ed_edges = <<>>
    /\ ed_done = TRUE

---------------------------------------------------------------------------
(* The analysis of the files  (repomap.py 166-184, 493-634) *)

\* A text is a sequence of lines, each a statement of its own at column 0. A
\* line is given with what the two strategies make of it: the outcome of
\* ast.parse, the label and the import target the syntax-tree walk collects,
\* and the label and the target the first matching rule of _SYMBOL_PATTERNS
\* and of _IMPORT_PATTERNS gives.

\* def ok(): pass
LineDef ==
    [text |-> "def ok(): pass",
     ast |-> "parsed", py_symbol |-> <<"def ok">>, py_import |-> <<>>, symbol |-> <<"def ok">>, target |-> <<>>]

\* class Bar: pass
LineClass ==
    [text |-> "class Bar: pass",
     ast |-> "parsed", py_symbol |-> <<"class Bar">>, py_import |-> <<>>, symbol |-> <<"class Bar">>, target |-> <<>>]

\* import os
LineImport ==
    [text |-> "import os",
     ast |-> "parsed", py_symbol |-> <<>>, py_import |-> <<"os">>, symbol |-> <<>>, target |-> <<>>]

\* from .helpers import x
LineFromImport ==
    [text |-> "from .helpers import x",
     ast |-> "parsed", py_symbol |-> <<>>, py_import |-> <<".helpers">>, symbol |-> <<>>, target |-> <<>>]

\* def foo(:
LineBrokenDef ==
    [text |-> "def foo(:",
     ast |-> "SyntaxError", py_symbol |-> <<>>, py_import |-> <<>>, symbol |-> <<"def foo">>, target |-> <<>>]

\* class Bar:
LineOpenClass ==
    [text |-> "class Bar:",
     ast |-> "SyntaxError", py_symbol |-> <<>>, py_import |-> <<>>, symbol |-> <<"class Bar">>, target |-> <<>>]

\* import x from './y'
LineJsImport ==
    [text |-> "import x from './y'",
     ast |-> "SyntaxError", py_symbol |-> <<>>, py_import |-> <<>>, symbol |-> <<>>, target |-> <<"./y">>]

\* x = (
LineOpenParen ==
    [text |-> "x = (",
     ast |-> "SyntaxError", py_symbol |-> <<>>, py_import |-> <<>>, symbol |-> <<>>, target |-> <<>>]

\* x = 1
LineAssign ==
    [text |-> "x = 1",
     ast |-> "parsed", py_symbol |-> <<>>, py_import |-> <<>>, symbol |-> <<>>, target |-> <<>>]

\* require('./a')
LineRequire ==
    [text |-> "require('./a')",
     ast |-> "parsed", py_symbol |-> <<>>, py_import |-> <<>>, symbol |-> <<>>, target |-> <<"./a">>]

\* "x = " + "1+" * 100000 + "1"
LineDeep ==
    [text |-> "x = 1+1+ ... +1",
     ast |-> "RecursionError", py_symbol |-> <<>>, py_import |-> <<>>, symbol |-> <<>>, target |-> <<>>]

LinePool ==
    { LineDef, LineClass, LineImport, LineFromImport,
      LineBrokenDef, LineOpenClass, LineJsImport, LineOpenParen,
      LineAssign, LineRequire, LineDeep }

\* the items in the order of their first occurrence: the seen sets of the
\* extraction loops
RECURSIVE Distinct(_)
Distinct(seq) ==
    IF seq = <<>> THEN <<>>
    ELSE LET rest == Distinct(SubSeq(seq, 1, Len(seq) - 1))
             last == seq[Len(seq)]
         IN  IF last \in ToSet(rest) THEN rest ELSE Append(rest, last)

\* what the lines of a text give under one heading, line after line
RECURSIVE Collected(_, _)
Collected(text, heading) ==
    IF text = <<>> THEN <<>>
    ELSE Head(text)[heading] \o Collected(Tail(text), heading)

\* what an extraction returns: summaries, count, imports, and the exception
\* that left it
Extracted(symbols, max_symbols, imports) ==
    [exc |-> "none", symbols |-> Take(symbols, max_symbols), symbol_count |-> Len(symbols), imports |-> imports]

\* ast.parse(text): a syntax error is found while parsing, the recursion
\* limit is met afterwards, while the tree is built
AstParse(text) ==
    IF \E i \in 1..Len(text) : text[i].ast = "SyntaxError" THEN "SyntaxError"
    ELSE IF \E i \in 1..Len(text) : text[i].ast = "RecursionError" THEN "RecursionError"
    ELSE "parsed"

\* _extract_python_symbols_and_imports
_extract_python_symbols_and_imports(text, max_symbols) ==
    IF AstParse(text) = "SyntaxError" THEN Extracted(<<>>, max_symbols, <<>>)
    ELSE IF AstParse(text) # "parsed"
         THEN [Extracted(<<>>, max_symbols, <<>>) EXCEPT !.exc = AstParse(text)]
    ELSE Extracted(Distinct(Collected(text, "py_symbol")), max_symbols,
                   Distinct(Collected(text, "py_import")))

\* _extract_symbol_summaries and _extract_import_targets
ExtractGeneric(text, max_symbols) ==
    Extracted(Distinct(Collected(text, "symbol")), max_symbols,
              Distinct(Collected(text, "target")))

\* _extract_symbols_and_imports, max_symbols = 4
_extract_symbols_and_imports(rel_path, text) ==
    LET py == _extract_python_symbols_and_imports(text, 4)
    IN  IF Lower(PathSuffix(rel_path)) # StrDotPy THEN ExtractGeneric(text, 4)
        ELSE IF py.exc # "none" THEN py
        ELSE IF py.symbol_count > 0 \/ py.imports # <<>> THEN py
        ELSE ExtractGeneric(text, 4)

\* _analyze_file: the analysis, and the exception that left the call
_analyze_file(file) ==
    LET text == IF file.readable THEN file.text ELSE <<>>
        found == IF text # <<>> THEN _extract_symbols_and_imports(file.path, text)
                 ELSE Extracted(<<>>, 4, <<>>)
    IN  [exc |-> found.exc,
         path |-> file.path,
         byte_size |-> file.st_size,
         line_count |-> Len(text),
         symbols |-> found.symbols,
         symbol_count |-> found.symbol_count,
         imports |-> found.imports]

MaxLines == 2

\* src/a.py, src/a.ts, src/b.py
SourcePaths == { <<115, 114, 99, 47, 97, 46, 112, 121>>, <<115, 114, 99, 47, 97, 46, 116, 115>> }

StrSrcBPy == <<115, 114, 99, 47, 98, 46, 112, 121>>

\* the texts of at most MaxLines lines
Texts == UNION { [1..n -> LinePool] : n \in 0..MaxLines }

\* run_repomap has discovered two files: one with any text, and src/b.py,
\* which parses and may not be readable
AnalyzeInit ==
    /\ \E path \in SourcePaths, text \in Texts, readable \in BOOLEAN :
           az_files = << [path |-> path, text |-> text, readable |-> TRUE, st_size |-> 16 * Len(text)],
                         [path |-> StrSrcBPy, text |-> <<LineDef, LineImport>>,
                          readable |-> readable, st_size |-> 32] >>
    /\ az_analyses = <<>>
    /\ az_pc = "analysing"
    /\ az_raised = {}
    /\ az_artifact = {}

\* _analyze_files, one turn of its loop; an exception of the extraction
\* leaves _analyze_files and run_repomap, which catch nothing here
AnalyzeFile ==
    /\ az_pc = "analysing"
    /\ Len(az_analyses) < Len(az_files)
    /\ LET analysis == _analyze_file(az_files[Len(az_analyses) + 1])
       IN  IF analysis.exc # "none"
           THEN /\ az_pc' = "raised"
                /\ az_raised' = {analysis.exc}
                /\ UNCHANGED az_analyses
           ELSE /\ az_analyses' = Append(az_analyses, analysis)
                /\ UNCHANGED <<az_pc, az_raised>>
    /\ UNCHANGED <<az_files, az_artifact>>

\* run_repomap after the analysis: the artifact with ok = True and its stats
ReturnAnalysed ==
    /\ az_pc = "analysing"
    /\ Len(az_analyses) = Len(az_files)
    /\ az_artifact' = {[ok |-> TRUE,
                        files_parsed |-> Len(az_files),
                        symbols_found |-> SumSeq([i \in 1..Len(az_analyses) |-> az_analyses[i].symbol_count])]}
    /\ az_pc' = "returned"
    /\ UNCHANGED <<az_files, az_analyses, az_raised>>

\* no analysis is under way
AnalyzeIdle ==
    /\ az_files = <<>>
    /\ az_analyses = <<>>
    /\ az_pc = "idle"
    /\ az_raised = {}
    /\ az_artifact = {}

---------------------------------------------------------------------------
(* The specifications *)

vars == <<rtVars, rkVars, gyVars, rrVars, dsVars, prVars, rwVars, tkVars, stVars, edVars, azVars>>

RenderSpecInit == RenderInit /\ RankIdle /\ GraveIdle /\ RunIdle /\ DiscoverIdle /\ PagerankIdle /\ RunWriteIdle /\ TokenizeIdle /\ StopIdle /\ EdgeIdle /\ AnalyzeIdle

RenderSpecNext == RenderText /\ UNCHANGED <<rkVars, gyVars, rrVars, dsVars, prVars, rwVars, tkVars, stVars, edVars, azVars>>

SpecRender == RenderSpecInit /\ [][RenderSpecNext]_vars

RankSpecInit == RankInit /\ RenderIdle /\ GraveIdle /\ RunIdle /\ DiscoverIdle /\ PagerankIdle /\ RunWriteIdle /\ TokenizeIdle /\ StopIdle /\ EdgeIdle /\ AnalyzeIdle

RankSpecNext == RankFiles /\ UNCHANGED <<rtVars, gyVars, rrVars, dsVars, prVars, rwVars, tkVars, stVars, edVars, azVars>>

SpecRank == RankSpecInit /\ [][RankSpecNext]_vars

RunSpecInit == RunInit /\ RenderIdle /\ RankIdle /\ GraveIdle /\ DiscoverIdle /\ PagerankIdle /\ RunWriteIdle /\ TokenizeIdle /\ StopIdle /\ EdgeIdle /\ AnalyzeIdle

RunSpecNext ==
    \/ CheckRoot /\ UNCHANGED <<rtVars, rkVars, gyVars, dsVars, prVars, rwVars, tkVars, stVars, edVars, azVars>>
    \/ CheckTimeout /\ UNCHANGED <<rtVars, rkVars, gyVars, dsVars, prVars, rwVars, tkVars, stVars, edVars, azVars>>
    \/ Discover /\ UNCHANGED <<rtVars, rkVars, gyVars, dsVars, prVars, rwVars, tkVars, stVars, edVars, azVars>>
    \/ BuildArtifact /\ UNCHANGED <<rtVars, rkVars, gyVars, dsVars, prVars, rwVars, tkVars, stVars, edVars, azVars>>
    \/ WriteLatest /\ UNCHANGED <<rtVars, rkVars, gyVars, dsVars, prVars, rwVars, tkVars, stVars, edVars, azVars>>
    \/ WriteSession /\ UNCHANGED <<rtVars, rkVars, gyVars, dsVars, prVars, rwVars, tkVars, stVars, edVars, azVars>>

SpecRun == RunSpecInit /\ [][RunSpecNext]_vars

DiscoverSpecInit == DiscoverInit /\ RenderIdle /\ RankIdle /\ GraveIdle /\ RunIdle /\ PagerankIdle /\ RunWriteIdle /\ TokenizeIdle /\ StopIdle /\ EdgeIdle /\ AnalyzeIdle

DiscoverSpecNext ==
    \/ SelectScope /\ UNCHANGED <<rtVars, rkVars, gyVars, rrVars, prVars, rwVars, tkVars, stVars, edVars, azVars>>
    \/ DiscoverFiles /\ UNCHANGED <<rtVars, rkVars, gyVars, rrVars, prVars, rwVars, tkVars, stVars, edVars, azVars>>

SpecDiscover == DiscoverSpecInit /\ [][DiscoverSpecNext]_vars

PagerankSpecInit == PagerankInit /\ RenderIdle /\ RankIdle /\ GraveIdle /\ RunIdle /\ DiscoverIdle /\ RunWriteIdle /\ TokenizeIdle /\ StopIdle /\ EdgeIdle /\ AnalyzeIdle

PagerankSpecNext == PagerankScores /\ UNCHANGED <<rtVars, rkVars, gyVars, rrVars, dsVars, rwVars, tkVars, stVars, edVars, azVars>>

SpecPagerank == PagerankSpecInit /\ [][PagerankSpecNext]_vars

WriteSpecInit == RunWriteInit /\ RenderIdle /\ RankIdle /\ GraveIdle /\ RunIdle /\ DiscoverIdle /\ PagerankIdle /\ TokenizeIdle /\ StopIdle /\ EdgeIdle /\ AnalyzeIdle

WriteSpecNext == RunWriteAttempt /\ UNCHANGED <<rtVars, rkVars, gyVars, rrVars, dsVars, prVars, tkVars, stVars, edVars, azVars>>

SpecWrite == WriteSpecInit /\ [][WriteSpecNext]_vars

TokenizeSpecInit == TokenizeInit /\ RenderIdle /\ RankIdle /\ GraveIdle /\ RunIdle /\ DiscoverIdle /\ PagerankIdle /\ RunWriteIdle /\ StopIdle /\ EdgeIdle /\ AnalyzeIdle

TokenizeSpecNext == Tokenize /\ UNCHANGED <<rtVars, rkVars, gyVars, rrVars, dsVars, prVars, rwVars, stVars, edVars, azVars>>

SpecTokenize == TokenizeSpecInit /\ [][TokenizeSpecNext]_vars

WindowSpecInit == WindowInit /\ RenderIdle /\ RankIdle /\ RunIdle /\ DiscoverIdle /\ PagerankIdle /\ RunWriteIdle /\ TokenizeIdle /\ StopIdle /\ EdgeIdle /\ AnalyzeIdle

WindowSpecNext ==
    \/ RecordBeyondWindow /\ UNCHANGED <<rtVars, rkVars, rrVars, dsVars, prVars, rwVars, tkVars, stVars, edVars, azVars>>
    \/ FindSimilar /\ UNCHANGED <<rtVars, rkVars, rrVars, dsVars, prVars, rwVars, tkVars, stVars, edVars, azVars>>

SpecWindow == WindowSpecInit /\ [][WindowSpecNext]_vars

StopSpecInit == StopInit /\ RenderIdle /\ RankIdle /\ GraveIdle /\ RunIdle /\ DiscoverIdle /\ PagerankIdle /\ RunWriteIdle /\ TokenizeIdle /\ EdgeIdle /\ AnalyzeIdle

StopSpecNext ==
    \/ RunInvariantsOnStop /\ UNCHANGED <<rtVars, rkVars, gyVars, rrVars, dsVars, prVars, rwVars, tkVars, edVars, azVars>>
    \/ StopOutcome /\ UNCHANGED <<rtVars, rkVars, gyVars, rrVars, dsVars, prVars, rwVars, tkVars, edVars, azVars>>

SpecStop == StopSpecInit /\ [][StopSpecNext]_vars

\* _build_dependency_edges on its own
EdgeSpecInit == EdgeInit /\ RenderIdle /\ RankIdle /\ GraveIdle /\ RunIdle /\ DiscoverIdle /\ PagerankIdle /\ RunWriteIdle /\ TokenizeIdle /\ StopIdle /\ AnalyzeIdle

EdgeSpecNext ==
    \/ BuildDependencyEdges /\ UNCHANGED <<rtVars, rkVars, gyVars, rrVars, dsVars, prVars, rwVars, tkVars, stVars, azVars>>

SpecEdges == EdgeSpecInit /\ [][EdgeSpecNext]_vars

\* the analysis of the discovered files within run_repomap
AnalyzeSpecInit == AnalyzeInit /\ RenderIdle /\ RankIdle /\ GraveIdle /\ RunIdle /\ DiscoverIdle /\ PagerankIdle /\ RunWriteIdle /\ TokenizeIdle /\ StopIdle /\ EdgeIdle

AnalyzeSpecNext ==
    \/ AnalyzeFile /\ UNCHANGED <<rtVars, rkVars, gyVars, rrVars, dsVars, prVars, rwVars, tkVars, stVars, edVars>>
    \/ ReturnAnalysed /\ UNCHANGED <<rtVars, rkVars, gyVars, rrVars, dsVars, prVars, rwVars, tkVars, stVars, edVars>>

SpecAnalyze == AnalyzeSpecInit /\ [][AnalyzeSpecNext]_vars

Init == GraveInit /\ RenderIdle /\ RankIdle /\ RunIdle /\ DiscoverIdle /\ PagerankIdle /\ RunWriteIdle /\ TokenizeIdle /\ StopIdle /\ EdgeIdle /\ AnalyzeIdle

Next ==
    \/ RecordFailure /\ UNCHANGED <<rtVars, rkVars, rrVars, dsVars, prVars, rwVars, tkVars, stVars, edVars, azVars>>
    \/ FindSimilar /\ UNCHANGED <<rtVars, rkVars, rrVars, dsVars, prVars, rwVars, tkVars, stVars, edVars, azVars>>

Spec == Init /\ [][Next]_vars

---------------------------------------------------------------------------
(* C1 *)

\* C1 as stated: the UTF-8 length of the text returned by _render_text is at
\* most max_text_bytes, for every ranking and every max_text_bytes.
C1_AsStated == rt_done => EncodeLen(rt_text) <= rt_max_text_bytes

\* C1 amended: the UTF-8 length of the text returned by _render_text is at
\* most max(256, max_text_bytes), also when the truncation note forces
\* already-accepted entries to be dropped.
C1_WithinFlooredBudget ==
    rt_done => EncodeLen(rt_text) <= Max(MIN_TEXT_BUDGET, rt_max_text_bytes)

\* A run where the note did not fit behind the accepted entries, so that
\* accepted entries were dropped and the note reports fewer than accepted.
C1_Witness ==
    LET budget   == Max(MIN_TEXT_BUDGET, rt_max_text_bytes)
        accepted == AcceptedCount(rt_ranking, budget, 0)
        kept     == ShrinkForNote(rt_ranking, budget, accepted)
    IN  /\ rt_done
        /\ accepted < Len(rt_ranking)
        /\ 0 < kept /\ kept < accepted
        /\ rt_text = ChunksText(rt_ranking, kept)
                        \o TruncationNote(kept, Len(rt_ranking), budget)

---------------------------------------------------------------------------
(* C5 *)

\* the position of a path in a ranking; 0 when absent
PosIn(ranking, path) ==
    IF \E i \in 1..Len(ranking) : ranking[i].path = path
    THEN CHOOSE i \in 1..Len(ranking) : ranking[i].path = path
    ELSE 0

\* entry a stands strictly before entry b: higher score, or equal score and
\* the smaller path
StrictlyBefore(a, b) ==
    \/ a.score > b.score
    \/ a.score = b.score /\ StrLess(a.path, b.path)

\* every reordering of a sequence
Reorderings(s) ==
    {[i \in 1..Len(s) |-> s[p[i]]] : p \in Permutations(1..Len(s))}

\* C5: _rank_files returns the first max_files of the analysed files in
\* descending score, equal scores in ascending path, every score >= 0, and
\* the same result for every permutation of the analyses list.  (Each
\* analysis is scored on its own, so a permutation of the analyses is the
\* same permutation of the scored list.)
C5_RankOrderTotal ==
    rk_done =>
      LET scored  == ScoreAll(rk_analyses, rk_focus_files, rk_graph_scores)
          entries == {scored[i] : i \in 1..Len(scored)}
          shown   == {rk_ranking[i] : i \in 1..Len(rk_ranking)}
      IN  /\ Len(rk_ranking) = Min(Len(rk_analyses), rk_max_files)
          /\ shown \subseteq entries
          /\ \A i \in 1..Len(rk_ranking) : rk_ranking[i].score >= 0
          /\ \A i, j \in 1..Len(rk_ranking) :
                 i < j => StrictlyBefore(rk_ranking[i], rk_ranking[j])
          /\ \A e \in entries \ shown : \A x \in shown : StrictlyBefore(x, e)
          /\ \A perm \in Reorderings(scored) :
                 SortAndCut(perm, rk_max_files) = rk_ranking

\* Two files of equal score were given in descending path order and are
\* returned in ascending path order, a third file being cut by max_files.
C5_Witness ==
    /\ rk_done
    /\ Len(rk_analyses) = 3 /\ Len(rk_ranking) = 2
    /\ rk_ranking[1].score = rk_ranking[2].score
    /\ rk_ranking[1].path = StrAPy /\ rk_ranking[2].path = StrBPy
    /\ \E i, j \in 1..3 :
           i < j /\ rk_analyses[i].path = StrBPy /\ rk_analyses[j].path = StrAPy

---------------------------------------------------------------------------
(* C6 *)

\* two analyses agree in every attribute the score reads, the focus list
\* aside
SameScoreAttributes(a, b, graph_scores) ==
    LET pa == SlashNormalize(a.path)
        pb == SlashNormalize(b.path)
        dirsOf(p) == LET parts == PathParts(p)
                     IN  [i \in 1..(Len(parts) - 1) |-> Lower(parts[i])]
        pen(p)  == IF Contains(Lower(PathStem(p)), StrGenerated)
                      \/ Contains(Lower(PathStem(p)), StrSnapshot) THEN 1 ELSE 0
        g(p)    == IF p \in DOMAIN graph_scores THEN graph_scores[p] ELSE 0
    IN  /\ Lower(PathSuffix(pa)) = Lower(PathSuffix(pb))
        /\ CountChar(pa, 47) = CountChar(pb, 47)
        /\ dirsOf(pa) = dirsOf(pb)
        /\ a.symbol_count = b.symbol_count
        /\ a.line_count = b.line_count
        /\ NameBoostSum(Lower(PathStem(pa))) = NameBoostSum(Lower(PathStem(pb)))
        /\ DictGet(_RANK_EXACT_FILENAME_PENALTIES, Lower(PathName(pa)), 0)
             = DictGet(_RANK_EXACT_FILENAME_PENALTIES, Lower(PathName(pb)), 0)
        /\ pen(pa) = pen(pb)
        /\ g(pa) = g(pb)

\* C6: of two analysed files identical in every score-relevant attribute, of
\* which exactly one is a focus file, _rank_files places the focus file
\* strictly before the other.
C6_FocusFileFirst ==
    rk_done =>
      \A i, j \in 1..Len(rk_analyses) :
        LET a == rk_analyses[i]
            b == rk_analyses[j]
        IN  ( /\ SameScoreAttributes(a, b, rk_graph_scores)
              /\ a.path \in rk_focus_files
              /\ b.path \notin rk_focus_files
              /\ PosIn(rk_ranking, b.path) > 0 )
            => /\ PosIn(rk_ranking, a.path) > 0
               /\ PosIn(rk_ranking, a.path) < PosIn(rk_ranking, b.path)

---------------------------------------------------------------------------
(* C4 *)

\* the list find_similar returns for the last query, the narrowing being
\* available (TRUE) or reporting "unsupported" (FALSE)
LastQueryResult(fts_ok) ==
    find_similar(gy_table, gy_config, gy_query.summary, gy_query.files,
                 gy_query.max_matches, fts_ok)

\* C4: for the same records, summary and files, find_similar returns the
\* same list when list_graveyard_fts_candidates reports "unsupported" as
\* when the narrowing is available and used.
C4_FallbackEquivalence ==
    gy_op = "find_similar" => LastQueryResult(FALSE) = LastQueryResult(TRUE)

---------------------------------------------------------------------------
(* C7 *)

\* the stored row a match names
RowOf(m) == gy_table[m.entry_id]

\* C7: every match find_similar returns has a combined score at or above
\* similarity_threshold and meets a gate condition: keyword overlap of at
\* least min_keyword_overlap, or a non-empty file overlap, or a semantic
\* score at or above the threshold; the overlaps being those of the query
\* with the stored row.
C7_MatchesPassGateAndThreshold ==
    gy_op = "find_similar" =>
      \A i \in 1..Len(gy_matches) :
        LET m   == gy_matches[i]
            row == RowOf(m)
            qk  == _keywords(gy_query.summary)
            qf  == {_norm_path(gy_query.files[k]) : k \in 1..Len(gy_query.files)}
            kw  == qk \cap (_keywords(row.summary) \cup _keywords(row.reason))
            fo  == qf \cap {_norm_path(row.files[k]) : k \in 1..Len(row.files)}
            sem == _token_jaccard(ToSet(_tokenize(gy_query.summary)),
                                  ToSet(_tokenize(row.summary \o <<32>> \o row.reason)))
        IN  /\ m.keyword_overlap = kw /\ m.file_overlap = fo
            /\ m.semantic_score = 100 * sem
            /\ m.score >= gy_config.similarity_threshold
            /\ \/ Cardinality(kw) >= gy_config.min_keyword_overlap
               \/ fo # {}
               \/ 100 * sem >= gy_config.similarity_threshold

\* A query returned one stored record and left out another that shares a
\* file with the query, so passes the gate, but scores below the threshold.
C7_Witness ==
    /\ gy_op = "find_similar"
    /\ gy_config.similarity_threshold = 350000
    /\ Len(gy_table) = 2
    /\ Len(gy_matches) = 1
    /\ gy_query.files # <<>>
    /\ \E i \in 1..2 :
           /\ gy_table[i].id # gy_matches[1].entry_id
           /\ _norm_path(gy_query.files[1]) = _norm_path(gy_table[i].files[1])

---------------------------------------------------------------------------
(* C8 *)

\* C8: find_similar returns the first max_matches (the caller's value when
\* one is passed, otherwise config.max_matches) of the passing matches in
\* descending score, equal scores in descending record id, and never more
\* than max_matches entries.
C8_FirstMaxMatches ==
    (gy_op = "find_similar" /\ gy_config.enabled) =>
      LET limit   == IF gy_query.max_matches = {} THEN gy_config.max_matches
                     ELSE CHOOSE n \in gy_query.max_matches : TRUE
          passing == ScoredMatches(gy_table, gy_config, gy_query.summary,
                                   gy_query.files, gy_fts_ok)
      IN  /\ Len(gy_matches) <= limit
          /\ Len(gy_matches) = Min(limit, Len(passing))
          /\ ToSet(gy_matches) \subseteq ToSet(passing)
          /\ \A i, j \in 1..Len(gy_matches) :
                 i < j => \/ gy_matches[i].score > gy_matches[j].score
                          \/ /\ gy_matches[i].score = gy_matches[j].score
                             /\ gy_matches[i].entry_id > gy_matches[j].entry_id
          /\ \A m \in ToSet(passing) \ ToSet(gy_matches) :
                 \A x \in ToSet(gy_matches) : MatchKeyGeq(x, m)

---------------------------------------------------------------------------
(* C9 *)

\* C9: the score find_similar gives a record does not depend on the
\* narrowing: every returned match carries exactly the score the record
\* gets when the full window is scanned.
C9_ScoreIndependentOfNarrowing ==
    gy_op = "find_similar" =>
      LET full == ScoredMatches(gy_table, gy_config, gy_query.summary,
                                gy_query.files, FALSE)
      IN  \A i \in 1..Len(gy_matches) :
              \E j \in 1..Len(full) :
                  /\ full[j].entry_id = gy_matches[i].entry_id
                  /\ full[j].score = gy_matches[i].score

\* A query of two keywords, one of them in no record, answered from a
\* narrowed candidate list that is shorter than the window.
C9_Witness ==
    /\ gy_op = "find_similar"
    /\ gy_fts_ok
    /\ Len(gy_matches) >= 1
    /\ LET toks == _tokenize(gy_query.summary)
           cand == list_graveyard_fts_candidates(gy_table, toks, WINDOW_LIMIT,
                                                 CANDIDATE_LIMIT, gy_fts_ok)
       IN  /\ cand.items # <<>>
           /\ Len(cand.items) < Len(list_graveyard(gy_table, WINDOW_LIMIT))
           /\ gy_matches[1].keyword_overlap # {}
           /\ gy_matches[1].keyword_overlap # ToSet(toks)

---------------------------------------------------------------------------
(* C2 *)

\* the artifact run_repomap returned
ReturnedArtifact == CHOOSE a \in (CHOOSE r \in rr_result : TRUE).artifact : TRUE

HasReturned == rr_result # {} /\ (CHOOSE r \in rr_result : TRUE).artifact # {}

\* C2: every artifact run_repomap returns with ok=false has files_parsed,
\* symbols_found, graph_edges and byte_count all 0, an empty ranking, an
\* empty text and an error object carrying code, message, retryable and
\* failed_stage; every artifact with ok=true has no error object.
C2_FailureArtifactsAreEmpty ==
    HasReturned =>
      LET a == ReturnedArtifact
      IN  /\ ~a.ok =>
                /\ a.stats = ZeroStats
                /\ a.ranking = <<>>
                /\ a.text = <<>>
                /\ a.error # {}
                /\ \A e \in a.error :
                       DOMAIN e = {"code", "message", "retryable", "failed_stage"}
          /\ a.ok => a.error = {}

\* A write failed after an artifact with files, a ranking and a text had
\* been built, and the artifact returned is the empty failure artifact.
C2_Witness ==
    /\ HasReturned
    /\ ~ReturnedArtifact.ok
    /\ rr_fault.at = "write"
    /\ \E a \in rr_artifact :
           a.stats.files_parsed > 0 /\ a.ranking # <<>> /\ a.text # <<>>

---------------------------------------------------------------------------
(* C3 *)

\* the code and stage the failure of a cause is reported with: a bad root
\* and an OSError of discovery are scan_failed, a timeout (the budget's, or
\* the operating system's TimeoutError) is timeout, both at stage
\* discovery; an OSError of a write is write_failed at stage write
ExpectedCode(fault) ==
    CASE fault.at = "root" -> "scan_failed"
      [] fault.at = "timeout_check" -> "timeout"
      [] fault.at = "discovery" ->
             IF fault.exc = "TimeoutError" THEN "timeout" ELSE "scan_failed"
      [] fault.at = "write" -> "write_failed"

ExpectedStage(fault) == IF fault.at = "write" THEN "write" ELSE "discovery"

---------------------------------------------------------------------------
(* C10 *)

\* C10: with an existing root directory, a call with timeout_ms <= 0
\* discovers, analyses and writes nothing and returns ok=false with code
\* timeout at stage discovery; a call with timeout_ms=None never returns a
\* timeout error.
C10_TimeoutBudget ==
    /\ (rr_root = "dir" /\ \E t \in rr_args.timeout_ms : t <= 0) =>
          /\ rr_visited = 0 /\ rr_discovered = <<>>
          /\ ~rr_analysed /\ rr_written = {}
          /\ rr_pc = "done" =>
                /\ HasReturned
                /\ ~ReturnedArtifact.ok
                /\ \A e \in ReturnedArtifact.error :
                       e.code = "timeout" /\ e.failed_stage = "discovery"
    /\ (rr_args.timeout_ms = {} /\ HasReturned) =>
          \A e \in ReturnedArtifact.error : e.code # "timeout"


---------------------------------------------------------------------------
(* Discovery *)

\* the ignore set of the call: the default names and the configured ones
IgnoreSet == DEFAULT_IGNORED_DIRS \cup ToSet(ds_config.ignored_dirs)

\* a file on disk lies under a scope entry of the call
UnderScopeEntry(file) ==
    \E i \in 1..Len(ds_selected) :
        LET target == ResolveParts(PathParts(ds_selected[i]), <<>>)
        IN  UnderRoot(target) /\ IsPrefix(target, PathParts(file.path))

\* a file's own name and content pass the hidden-file, suffix, size and
\* binary filters
PassesFileFilters(file) ==
    LET name == PathName(file.path)
    IN  /\ ~StartsWith(name, <<46>>) \/ name \in {<<46, 101, 110, 118>>, <<46, 103, 105, 116, 105, 103, 110, 111, 114, 101>>}
        /\ ~EndsWith(name, <<46, 109, 105, 110, 46, 106, 115>>) /\ ~EndsWith(name, <<46, 109, 105, 110, 46, 99, 115, 115>>) /\ ~EndsWith(name, <<46, 109, 97, 112>>)
        /\ file.size <= MAX_DISCOVER_FILE_BYTES
        /\ Lower(NameSuffix(name)) \notin _BINARY_SUFFIXES
        /\ ~file.has_null

\* a path has a segment, other than its last, in the ignore set
InIgnoredDir(path) ==
    LET parts == PathParts(path)
    IN  \E k \in 1..(Len(parts) - 1) : parts[k] \in IgnoreSet

\* C11: _discover_files never returns a path one of whose segments, other
\* than the last, is in the ignore set; and every text file that lies under a
\* scope entry, outside every ignored directory, and passes the hidden-file,
\* suffix, size and binary filters is returned.
C11_DiscoveryFilters ==
    ds_pc = "done" =>
        /\ \A i \in 1..Len(ds_files) : ~InIgnoredDir(ds_files[i])
        /\ \A file \in ds_tree.files :
               (UnderScopeEntry(file) /\ ~InIgnoredDir(file.path) /\ PassesFileFilters(file))
                   => file.path \in ToSet(ds_files)


---------------------------------------------------------------------------
(* C12 *)

\* the scores of the backend that was used, before they are scaled
BackendScores ==
    IF pr_networkx # <<>> THEN pr_networkx ELSE _pagerank_scores_simple(pr_paths, pr_edges)

\* C12: for a non-empty path list, _pagerank_scores_with_backend returns a
\* score for exactly the given paths; when the backend produced a positive
\* score the largest returned score is exactly 1.0 (1000 thousandths), and
\* otherwise every returned score is 0.0.
C12_ScoresScaledToPeak ==
    (pr_done /\ pr_paths # <<>>) =>
        LET scores == pr_result.scores
        IN  /\ DOMAIN scores = ToSet(pr_paths)
            /\ IF \E p \in DOMAIN BackendScores : BackendScores[p] > 0
               THEN /\ \E p \in DOMAIN scores : scores[p] = 1000
                    /\ \A p \in DOMAIN scores : scores[p] <= 1000
               ELSE \A p \in DOMAIN scores : scores[p] = 0

\* the fallback ran on a graph with edges, and some path scores strictly
\* between 0.0 and 1.0
C12_Witness ==
    /\ pr_done
    /\ pr_result.backend = "simple"
    /\ pr_edges # {}
    /\ \E p \in DOMAIN pr_result.scores : pr_result.scores[p] > 0 /\ pr_result.scores[p] < 1000


---------------------------------------------------------------------------
(* C13 *)

\* the fallback's scores of the call
Simple == _pagerank_scores_simple(pr_paths, pr_edges)

\* the files that import a path, and the files a path imports
ImportersOf(p) == Incoming(ToSet(pr_paths), pr_edges, p)

ImportsOf(p) == Outgoing(ToSet(pr_paths), pr_edges, p)

\* u has strictly more importers than v, and all their importers have the
\* same score
MoreEqualRankImporters(scores, u, v) ==
    /\ Cardinality(ImportersOf(u)) > Cardinality(ImportersOf(v))
    /\ \A p, q \in ImportersOf(u) \cup ImportersOf(v) : scores[p] = scores[q]

\* p and q are two files that import u and nothing else
TwoSoleImporters(u, p, q) ==
    /\ p # q
    /\ {p, q} \subseteq ImportersOf(u)
    /\ ImportsOf(p) = {u}
    /\ ImportsOf(q) = {u}

\* C13 as stated: a node with strictly more distinct inbound edges than
\* another, all from predecessors of equal rank, scores at least as much;
\* and a file imported by two files that import nothing else scores
\* strictly higher than each of them.
C13_AsStated ==
    (pr_done /\ pr_networkx = <<>>) =>
        LET scores == Simple
        IN  /\ \A u, v \in ToSet(pr_paths) :
                   MoreEqualRankImporters(scores, u, v) => scores[u] >= scores[v]
            /\ \A u, p, q \in ToSet(pr_paths) :
                   TwoSoleImporters(u, p, q) => scores[u] > scores[p] /\ scores[u] > scores[q]

\* C13, amended: the predecessors also have the same number of outgoing
\* edges (a predecessor's rank is shared among the files it imports); and
\* the two importers are themselves imported by no file.
C13_EqualOutDegreeAndUnimported ==
    (pr_done /\ pr_networkx = <<>>) =>
        LET scores == Simple
        IN  /\ \A u, v \in ToSet(pr_paths) :
                   ( /\ Cardinality(ImportersOf(u)) > Cardinality(ImportersOf(v))
                     /\ \A p, q \in ImportersOf(u) \cup ImportersOf(v) :
                            Cardinality(ImportsOf(p)) = Cardinality(ImportsOf(q))
                     /\ MoreEqualRankImporters(scores, u, v) )
                       => scores[u] >= scores[v]
            /\ \A u, p, q \in ToSet(pr_paths) :
                   (TwoSoleImporters(u, p, q) /\ ImportersOf(p) = {} /\ ImportersOf(q) = {})
                       => scores[u] > scores[p] /\ scores[u] > scores[q]

\* the graph of test_pagerank_scores_prefers_dependency_hub inside a larger
\* one: util.ts is imported by main.ts and feature.ts alone, and core.ts by
\* cli.ts alone
C13_Witness ==
    /\ pr_done
    /\ pr_networkx = <<>>
    /\ TwoSoleImporters("src/util.ts", "src/main.ts", "src/feature.ts")
    /\ ImportersOf("src/main.ts") = {} /\ ImportersOf("src/feature.ts") = {}
    /\ ImportersOf("src/core.ts") = {"src/cli.ts"}
    /\ MoreEqualRankImporters(Simple, "src/util.ts", "src/core.ts")


---------------------------------------------------------------------------
(* C14 *)

\* the texts find_similar and record_failure have tokenized: the query
\* summary, and the summary and reason of every stored record
TokenizedTexts ==
    {gy_query.summary} \cup UNION { {gy_table[i].summary, gy_table[i].reason} : i \in 1..Len(gy_table) }

\* C14: every word of the synonym table (redis, caching -> cache; latency,
\* slow, slowness -> timeout; crash, crashed, failure, failed, error,
\* errors, exception, exceptions -> fail; connection, connections ->
\* connect) is normalized to its canonical token, in the query text and in
\* the text of stored records.
C14_SynonymsCanonical ==
    \A txt \in TokenizedTexts :
        LET raw == FindWords(txt)
        IN  \A i \in 1..Len(raw) :
                \A kv \in _SYNONYM_CANONICAL :
                    Lower(raw[i]) = kv[1] => _normalize_token(raw[i]) = kv[2]


---------------------------------------------------------------------------
(* C15 *)

\* the last query had no tokens in its summary and no files
EmptyQuery ==
    /\ _tokenize(gy_query.summary) = <<>>
    /\ \A i \in 1..Len(gy_query.files) : gy_query.files[i] = <<>>

\* C15: find_similar returns an empty list, and invokes no store method,
\* when the query summary yields no tokens and no files are given; and it
\* returns an empty list when the store holds no records.
C15_EmptyInputsGiveNoMatches ==
    gy_op = "find_similar" =>
        /\ EmptyQuery => gy_matches = <<>> /\ gy_store_calls = <<>>
        /\ gy_table = <<>> => gy_matches = <<>>

\* an empty query against a store that holds records every one of which
\* would pass the gate and the threshold of the configuration
C15_Witness ==
    /\ gy_op = "find_similar"
    /\ EmptyQuery
    /\ gy_config.enabled
    /\ gy_config.similarity_threshold = 0 /\ gy_config.min_keyword_overlap = 0
    /\ gy_table # <<>>
    /\ gy_matches = <<>>


---------------------------------------------------------------------------
(* C16 *)

\* C16: no call modifies or removes a stored record; record_failure, with
\* the graveyard enabled, adds exactly one record, whose id is greater than
\* every id stored before; find_similar leaves the records as they are.
C16_AppendOnly ==
    [][ /\ Len(gy_table') >= Len(gy_table)
        /\ \A i \in 1..Len(gy_table) : gy_table'[i] = gy_table[i]
        /\ (gy_op' = "record_failure" /\ gy_config.enabled) =>
               /\ Len(gy_table') = Len(gy_table) + 1
               /\ \A i \in 1..Len(gy_table) : gy_table'[Len(gy_table')].id > gy_table[i].id
        /\ gy_op' = "find_similar" => gy_table' = gy_table ]_vars

\* records were added to a store that held some, and a query followed
C16_Witness ==
    /\ gy_op = "find_similar"
    /\ Len(gy_table) >= 2
    /\ gy_matches # <<>>


---------------------------------------------------------------------------
(* C17 *)

\* C17: the provenance of every artifact run_repomap returns, with ok=true
\* or ok=false, holds the ten keys method, source_root, scope, focus_files,
\* duration_ms, timeout_ms, ast_requested, ast_enabled, missing_deps and
\* pagerank_backend.
C17_ProvenanceHasTenKeys ==
    HasReturned =>
        {"method", "source_root", "scope", "focus_files", "duration_ms", "timeout_ms",
         "ast_requested", "ast_enabled", "missing_deps", "pagerank_backend"}
            \subseteq DOMAIN ReturnedArtifact.provenance


---------------------------------------------------------------------------
(* C18 *)

\* C18: the pagerank_backend of a successful artifact is "networkx" only
\* when the library returned a non-empty result, "simple" when the library
\* returned nothing and the fallback ran, and "none" when the AST graph was
\* not requested or no file was analysed.
C18_BackendReported ==
    (HasReturned /\ ReturnedArtifact.ok) =>
        LET backend == ReturnedArtifact.provenance.pagerank_backend
        IN  /\ backend \in {"networkx", "simple", "none"}
            /\ backend = "networkx" => rr_networkx # {} /\ <<>> \notin rr_networkx
            /\ rr_networkx = {<<>>} => backend = "simple"
            /\ (~rr_config.prefer_ast_graph \/ ReturnedArtifact.stats.files_parsed = 0)
                   => backend = "none"
            /\ backend = "none" => rr_networkx = {}

\* the library returned nothing for two analysed files joined by an edge,
\* and the artifact names the fallback
C18_Witness ==
    /\ HasReturned
    /\ ReturnedArtifact.ok
    /\ rr_networkx = {<<>>}
    /\ ReturnedArtifact.stats.files_parsed = 2
    /\ ReturnedArtifact.stats.graph_edges = 1
    /\ ReturnedArtifact.provenance.pagerank_backend = "simple"


---------------------------------------------------------------------------
(* C19 *)

\* a scope entry names a path that exists under the root
ExistsUnderRoot(entry) ==
    UnderRoot(ResolveParts(PathParts(entry), <<>>)) /\ PathExists(ds_tree, entry)

\* cortex, src, lib, app, packages, tests
FallbackNames ==
    << <<99, 111, 114, 116, 101, 120>>,
       <<115, 114, 99>>,
       <<108, 105, 98>>,
       <<97, 112, 112>>,
       <<112, 97, 99, 107, 97, 103, 101, 115>>,
       <<116, 101, 115, 116, 115>> >>

\* C19: when the caller passes no scope and none of the configured scope
\* paths exists under the root, the scope scanned is the existing members of
\* (cortex, src, lib, app, packages, tests) in that order, or "." when none
\* of them exists; when the caller passes a scope, or a configured scope
\* path exists, the requested scope is used unchanged.
C19_ScopeFallback ==
    ds_pc \in {"discover", "done"} =>
        LET requested == RequestedScope(ds_scope, ds_config.watch_paths)
            existing  == SelectSeq(FallbackNames, ExistsUnderRoot)
        IN  IF ds_scope = {} /\ ~(\E i \in 1..Len(requested) : ExistsUnderRoot(requested[i]))
            THEN ds_selected = (IF existing = <<>> THEN <<<<46>>>> ELSE existing)
            ELSE ds_selected = requested

---------------------------------------------------------------------------
(* C20 *)

\* _run_write has ended, by returning or by raising
RunWriteEnded == rw_pc \in {"returned", "raised"}

\* the exception attempt i ended with (the attempt raised one)
RaisedBy(i) == CHOOSE e \in rw_outcomes[i].exc : TRUE

\* the attempts that were followed by another one
Retried == {i \in 1..Len(rw_outcomes) : i < Len(rw_outcomes) \/ rw_pc = "loop"}

\* the exception is an OperationalError whose text holds 'database is locked'
IsDatabaseIsLocked(exc) ==
    exc.type = "OperationalError" /\ Contains(Lower(exc.message), MsgDatabaseIsLocked)

\* the exception is an OperationalError whose text holds one of the two lock
\* messages
IsLockError(exc) ==
    /\ exc.type = "OperationalError"
    /\ \/ Contains(Lower(exc.message), MsgDatabaseIsLocked)
       \/ Contains(Lower(exc.message), MsgDatabaseTableIsLocked)

\* C20 as stated: at most lock_retry_attempts+1 invocations of the
\* operation, and another invocation only after a 'database is locked'
\* error.
C20_AsStated ==
    rw_pc # "idle" =>
      /\ rw_invocations <= rw_lock_retry_attempts + 1
      /\ \A i \in Retried :
             rw_outcomes[i].exc # {} /\ IsDatabaseIsLocked(RaisedBy(i))

\* C20 amended: _run_write ends after at most max(0, lock_retry_attempts)+1
\* attempts, each invoking the operation at most once; an attempt is
\* followed by another only when it raised an OperationalError whose text
\* holds 'database is locked' or 'database table is locked'; it returns as
\* soon as one attempt ends without an exception; it raises the lock error
\* of the last allowed attempt; and it raises any other exception from the
\* attempt that met it, with no further invocation.
C20_BoundedLockRetries ==
    rw_pc # "idle" =>
      LET allowed == Max(0, rw_lock_retry_attempts) + 1
          n       == Len(rw_outcomes)
      IN  /\ n <= allowed /\ rw_invocations <= n
          /\ RunWriteEnded \/ ENABLED RunWriteAttempt
          /\ rw_pc = "loop" => n < allowed
          /\ \A i \in Retried : rw_outcomes[i].exc # {} /\ IsLockError(RaisedBy(i))
          /\ rw_pc = "returned" => n >= 1 /\ rw_outcomes[n].exc = {} /\ rw_raised = {}
          /\ rw_pc = "raised" =>
                /\ n >= 1 /\ rw_raised = rw_outcomes[n].exc /\ rw_raised # {}
                /\ IsLockError(RaisedBy(n)) => n = allowed
          /\ Len(rw_slept_ms) <= Cardinality(Retried)

\* lock_retry_attempts is 2; the first attempt met 'database table is
\* locked', the second 'database is locked' at the commit, the third met
\* 'database is locked' again and that error was raised.
C20_Witness ==
    /\ rw_pc = "raised"
    /\ rw_lock_retry_attempts = 2
    /\ Len(rw_outcomes) = 3 /\ rw_invocations = 3
    /\ rw_outcomes[1].exc = {ExcTableLocked}
    /\ rw_outcomes[2] = [stage |-> "commit", exc |-> {ExcLocked}]
    /\ rw_raised = {ExcLocked}
    /\ rw_slept_ms = <<25, 50>>

---------------------------------------------------------------------------
(* C22 *)

\* C22: when run_repomap has returned, the artifact files this run wrote
\* hold the artifact it returned: a run that returned ok=false left no file
\* with the ok=true artifact it had built, and a run that returned ok=true
\* with a session id wrote the artifact to both paths and returns both.
C22_FilesHoldReturnedArtifact ==
    (rr_pc = "done" /\ HasReturned) =>
      LET result == CHOOSE r \in rr_result : TRUE
      IN  /\ ~ReturnedArtifact.ok => rr_written = {}
          /\ (ReturnedArtifact.ok /\ rr_args.session_id # {}) =>
                /\ rr_written = {"latest", "session"}
                /\ rr_artifact = {ReturnedArtifact}
                /\ result.artifact_path = {"latest"}
                /\ result.session_artifact_path = {"session"}

---------------------------------------------------------------------------
(* C25 *)

\* the scope entries of the call that resolve under the root
EntriesUnderRoot ==
    SelectSeq(ds_selected, LAMBDA e : UnderRoot(ResolveParts(PathParts(e), <<>>)))

\* C25: the list _discover_files returns is in strictly ascending order of
\* code points (sorted, no path twice), also when scope entries overlap or
\* repeat; every entry is the root-relative path of a file under the root;
\* and a scope entry that resolves outside the root contributes nothing.
C25_SortedUniqueUnderRoot ==
    ds_pc = "done" =>
        /\ \A i \in 1..(Len(ds_files) - 1) : StrLess(ds_files[i], ds_files[i + 1])
        /\ \A i \in 1..Len(ds_files) :
               /\ \E f \in ds_tree.files : f.path = ds_files[i]
               /\ UnderRoot(ResolveParts(PathParts(ds_files[i]), <<>>))
        /\ EntriesUnderRoot # <<>> =>
               ds_files = _discover_files(ds_tree, EntriesUnderRoot, ds_config.ignored_dirs)
        /\ EntriesUnderRoot = <<>> => ds_files = <<>>

\* The scope ['src', 'src/app.py', '.', '../lib'] reaches src/app.py three
\* times and has an entry outside the root; src/app.py and lib/util.py are
\* returned once each, in order.
C25_Witness ==
    /\ ds_pc = "done"
    /\ Len(ds_selected) = 4
    /\ ds_tree.sibling
    /\ ds_files = << <<108, 105, 98, 47, 117, 116, 105, 108, 46, 112, 121>>,
                     <<115, 114, 99, 47, 97, 112, 112, 46, 112, 121>> >>

---------------------------------------------------------------------------
(* C26 *)

\* C26: the text _render_text returns is the rendering of the first k
\* entries of the ranking, in ranking order, for some k, followed by the
\* truncation note exactly when k is less than the number of entries; the
\* note reports k and the number of entries (and the budget in force).
C26_PrefixThenNote ==
    rt_done =>
      LET total  == Len(rt_ranking)
          budget == Max(MIN_TEXT_BUDGET, rt_max_text_bytes)
      IN  \E k \in 0..total :
              rt_text = ChunksText(rt_ranking, k)
                            \o (IF k < total THEN TruncationNote(k, total, budget)
                                ELSE <<>>)

\* The second entry did not fit and the third, a smaller one, would have
\* fitted together with the note: the text holds the first entry and the
\* note "showing 1/3".
C26_Witness ==
    /\ rt_done
    /\ Len(rt_ranking) = 3
    /\ LET budget == Max(MIN_TEXT_BUDGET, rt_max_text_bytes)
           note   == TruncationNote(1, 3, budget)
       IN  /\ rt_text = ChunksText(rt_ranking, 1) \o note
           /\ ChunksBytes(rt_ranking, 2) > budget
           /\ ChunksBytes(rt_ranking, 1) + EncodeLen(_render_entry_chunk(rt_ranking[3]))
                  + EncodeLen(note) <= budget

---------------------------------------------------------------------------
(* C29 *)

\* the raw words of the text that are kept: more than two characters after
\* lower-casing and stripping the boundary characters
KeptWords ==
    SelectSeq(FindWords(tk_text), LAMBDA raw : Len(StripPunct(Lower(raw))) > 2)

\* C29: every token _tokenize returns has at least 3 characters: there is
\* one token for each raw word that has more than 2 characters after
\* lower-casing and boundary stripping and none for the others, and the
\* token is never shorter than 3 after stemming and the synonym table.
C29_TokensAtLeastThree ==
    tk_done =>
        /\ Len(tk_tokens) = Len(KeptWords)
        /\ \A i \in 1..Len(tk_tokens) : Len(tk_tokens[i]) >= 3

\* "_ab- acting": the first word is dropped, having two characters after
\* the stripping, and the second is stemmed to the three characters "act".
C29_Witness ==
    /\ tk_done
    /\ tk_text = <<95, 97, 98, 45, 32, 97, 99, 116, 105, 110, 103, 32>>
    /\ tk_tokens = << <<97, 99, 116>> >>

---------------------------------------------------------------------------
(* C30 *)

\* C30: every record find_similar returns is among the 200 records stored
\* last (the 200 highest ids) when the query is made: once more than 200
\* failures are stored, an older record is not returned, however similar.
C30_OnlyTheRecentWindow ==
    gy_op = "find_similar" =>
        \A i \in 1..Len(gy_matches) :
            /\ gy_matches[i].entry_id > Len(gy_table) - WINDOW_LIMIT
            /\ gy_matches[i].entry_id <= Len(gy_table)

\* The store holds 201 records; the query repeats the summary of the oldest
\* one, which the same query returned first while the store held 200, and
\* the oldest record is not among the matches.
C30_Witness ==
    /\ gy_op = "find_similar"
    /\ Len(gy_table) = WINDOW_LIMIT + 1
    /\ gy_query.summary = gy_table[1].summary
    /\ find_similar(SubSeq(gy_table, 1, WINDOW_LIMIT), gy_config, gy_query.summary,
                    gy_query.files, gy_query.max_matches, gy_fts_ok)[1].entry_id = 1
    /\ \A i \in 1..Len(gy_matches) : gy_matches[i].entry_id # 1

---------------------------------------------------------------------------
(* C21 *)

\* the response on_stop returned
StopResponse == CHOOSE r \in st_response : TRUE

\* C21 as stated: when hooks.mode is not "strict" the response has
\* recommend_revert false and proceed true, whichever gate failed; in strict
\* mode a structured-stop violation gives the status failed_stop_contract
\* and recommend_revert true.
C21_AsStated ==
    st_pc = "done" =>
        /\ st_hooks.mode # "strict" =>
               ~StopResponse.recommend_revert /\ StopResponse.proceed
        /\ (st_hooks.mode = "strict" /\ st_checks.structured_stop_violation) =>
               /\ StopResponse.session_status = "failed_stop_contract"
               /\ StopResponse.recommend_revert

\* C21 amended: when hooks.mode is not "strict" the response has
\* recommend_revert false and proceed true, whichever gate failed; in strict
\* mode a structured-stop violation gives recommend_revert true and proceed
\* false, with the status failed_invariants when the invariant suite failed
\* and failed_stop_contract otherwise.
C21_AdvisoryNeverReverts ==
    st_pc = "done" =>
        /\ st_hooks.mode # "strict" =>
               ~StopResponse.recommend_revert /\ StopResponse.proceed
        /\ (st_hooks.mode = "strict" /\ st_checks.structured_stop_violation) =>
               /\ StopResponse.recommend_revert /\ ~StopResponse.proceed
               /\ StopResponse.session_status =
                      IF st_suite = "fail" THEN "failed_invariants"
                      ELSE "failed_stop_contract"

\* Advisory mode with every gate failed: the invariant suite, the challenge
\* report, the requirement audit and the structured stop payload; the
\* response lets the session proceed.
C21_Witness ==
    /\ st_pc = "done"
    /\ st_hooks.mode = "advisory"
    /\ st_hooks.fail_on_missing_challenge_coverage
    /\ st_hooks.fail_on_requirement_audit_gap
    /\ st_hooks.recommend_revert_on_invariant_failure
    /\ st_suite = "fail"
    /\ st_checks.challenge_ok = {FALSE}
    /\ st_checks.requirement_audit_gap
    /\ st_checks.structured_stop_violation
    /\ StopResponse.session_status = "failed_invariants"
    /\ ~StopResponse.recommend_revert /\ StopResponse.proceed

---------------------------------------------------------------------------
(* C23 *)

\* C23: _build_dependency_edges is a function of its input: for a fixed list
\* of file analyses the edge list is the same in whatever order the set of
\* discovered paths is iterated, also when two discovered Python files map
\* to the same module name (pkg.py and pkg/__init__.py).
C23_EdgesIndependentOfOrder ==
    ed_done =>
        \A order \in Orders(AvailablePaths(ed_analyses)) :
            _build_dependency_edges(ed_analyses, order) = ed_edges

---------------------------------------------------------------------------
(* C24 *)

\* C24: every edge returned by _build_dependency_edges joins two distinct
\* discovered files (source # target, both paths of the analysed file set),
\* and the edge list is sorted and holds no edge twice, whatever import
\* targets the files declare.
C24_EdgesJoinDistinctFilesSorted ==
    ed_done =>
        /\ \A i \in 1..Len(ed_edges) :
               /\ ed_edges[i][1] # ed_edges[i][2]
               /\ ed_edges[i][1] \in AvailablePaths(ed_analyses)
               /\ ed_edges[i][2] \in AvailablePaths(ed_analyses)
        /\ \A i, j \in 1..Len(ed_edges) : i < j => EdgeLess(ed_edges[i], ed_edges[j])

\* Two files import each other, and one of them also declares an import
\* that resolves to itself: two edges are returned.
C24_Witness ==
    /\ ed_done
    /\ Len(ed_edges) >= 2
    /\ \E i \in 1..Len(ed_analyses) :
           \E k \in 1..Len(ed_analyses[i].imports) :
               _resolve_python_import(ed_analyses[i].path,
                                      StripSpace(ed_analyses[i].imports[k]), ed_index)
                   = {ed_analyses[i].path}

---------------------------------------------------------------------------
(* C28 *)

\* the package of a file: the directories above it
PackageParts(path) == SubSeq(PathParts(path), 1, Len(PathParts(path)) - 1)

\* the module a dotted target names, seen from a file: the target's name
\* under the package level - 1 levels above the file's package
NamedModule(path, target) ==
    LET level == LeadingCount(target, 46)
        package == PackageParts(path)
    IN  JoinDot(SubSeq(package, 1, Len(package) - (level - 1))
                \o SplitOn(SubSeq(target, level + 1, Len(target)), 46))

\* C28: for a Python file, an import target with k leading dots resolves
\* against the package k - 1 levels above the importing file's package:
\* ".helpers" declared in src/pkg/module.py yields the edge
\* (src/pkg/module.py, src/pkg/helpers.py) whenever src/pkg/helpers.py is a
\* discovered file, and a target whose dot level exceeds the importing
\* file's package depth yields no edge.
C28_RelativeImportsResolve ==
    ed_done =>
        \A i \in 1..Len(ed_analyses) :
            LET path == ed_analyses[i].path
                imports == ed_analyses[i].imports
                module_py == <<115, 114, 99, 47, 112, 107, 103, 47, 109, 111, 100, 117, 108, 101, 46, 112, 121>>
                helpers_py == <<115, 114, 99, 47, 112, 107, 103, 47, 104, 101, 108, 112, 101, 114, 115, 46, 112, 121>>
                dot_helpers == <<46, 104, 101, 108, 112, 101, 114, 115>>
                from_here == { e \in ToSet(ed_edges) : e[1] = path }
            IN  /\ ( /\ path = module_py
                     /\ dot_helpers \in ToSet(imports)
                     /\ helpers_py \in AvailablePaths(ed_analyses) )
                   => <<module_py, helpers_py>> \in ToSet(ed_edges)
                /\ ( /\ Lower(PathSuffix(path)) = StrDotPy
                     /\ Len(imports) = 1
                     /\ LeadingCount(imports[1], 46) >= 1 )
                   => IF LeadingCount(imports[1], 46) > Len(PackageParts(path))
                      THEN from_here = {}
                      ELSE \A e \in from_here : ModuleName(e[2]) = NamedModule(path, imports[1])

---------------------------------------------------------------------------
(* C27 *)

\* the structural parse of the file fails: a Python file whose text is read
\* and which ast.parse does not accept
StructuralParseFails(file) ==
    /\ Lower(PathSuffix(file.path)) = StrDotPy
    /\ file.readable
    /\ file.text # <<>>
    /\ AstParse(file.text) # "parsed"

\* C27: a source file whose structural (syntax-tree) parse fails contributes
\* zero symbols and zero imports for that file, the analyses of all other
\* files are unchanged, and the run still returns ok=true.
C27_ParseFailureContributesNothing ==
    az_pc \in {"returned", "raised"} =>
        \A i \in 1..Len(az_files) :
            StructuralParseFails(az_files[i]) =>
                /\ az_pc = "returned"
                /\ \A artifact \in az_artifact : artifact.ok
                /\ az_analyses[i].symbols = <<>>
                /\ az_analyses[i].symbol_count = 0
                /\ az_analyses[i].imports = <<>>
                /\ \A j \in 1..Len(az_files) :
                       j # i => az_analyses[j] = _analyze_file(az_files[j])

=============================================================================
